---- MODULE Spec2Model ----
(***************************************************************************)
(* A model of the garment visualiser's deformation core: the cloth solver  *)
(* (ClothPhysics), the fold partitioner and compositor (OrigamiSolver) and *)
(* the fold list kept by the drafting table.                               *)
(*                                                                         *)
(* Numbers.  A length is an integer count of 1/UNIT world units.  Values   *)
(* computed in double precision are integers on that grid, rounded to the  *)
(* nearest grid point after each modelled operation (RDiv).  The position  *)
(* buffers are Float32Array: every store into them rounds to the coarser   *)
(* grid of multiples of QUANT (Fround).                                    *)
(***************************************************************************)
EXTENDS Integers, Sequences, FiniteSets, TLC

VARIABLES
    \* ClothPhysics
    positions, prevPositions, originalPositions, constraints, pins,
    interactionParticleIndex, interactionPosition, updates,
    \* OrigamiSolver calls
    geometryData, partition, composed,
    \* DraftingTable / App
    folds, mode, startPoint, meshPositions, clock

clothVars == <<positions, prevPositions, originalPositions, constraints, pins,
               interactionParticleIndex, interactionPosition, updates>>
solverVars == <<geometryData, partition, composed>>
uiVars == <<folds, mode, startPoint, meshPositions, clock>>
vars == <<clothVars, solverVars, uiVars>>

\* null for a vertex index (interactionParticleIndex, the hit of a pointer event)
NULL == -1

-----------------------------------------------------------------------------
(* Fixed-point arithmetic *)

UNIT == 1000
QUANT == 2

Abs(a) == IF a < 0 THEN -a ELSE a

\* a / b rounded to the nearest integer (b > 0); \div rounds towards -infinity
RDiv(a, b) == (2 * a + b) \div (2 * b)

\* Math.fround on store into a Float32Array
Fround(a) == QUANT * RDiv(a, QUANT)

RECURSIVE SqrtSearch(_, _, _)
SqrtSearch(n, lo, hi) ==
    IF lo >= hi THEN lo
    ELSE CHOOSE r \in {IF mid * mid <= n THEN SqrtSearch(n, mid, hi)
                        ELSE SqrtSearch(n, lo, mid - 1) :
                            mid \in {(lo + hi + 1) \div 2}} : TRUE

\* Math.sqrt, rounded down to the grid
Sqrt(n) == SqrtSearch(n, 0, 46340)

Vec(x, y, z) == <<x, y, z>>
X(v) == v[1]
Y(v) == v[2]
Z(v) == v[3]
FroundVec(v) == Vec(Fround(X(v)), Fround(Y(v)), Fround(Z(v)))

\* THREE.Vector3.distanceTo
DistanceTo(v1, v2) ==
    Sqrt((X(v1) - X(v2)) * (X(v1) - X(v2))
       + (Y(v1) - Y(v2)) * (Y(v1) - Y(v2))
       + (Z(v1) - Z(v2)) * (Z(v1) - Z(v2)))

-----------------------------------------------------------------------------
(* Physics constants (constants.ts) as fractions *)

TIMESTEP_NUM == 18
TIMESTEP_DEN == 1000
DRAG_NUM == 98
DRAG_DEN == 100
FRICTION_NUM == 9
FRICTION_DEN == 10
RELAX_ITERATIONS == 3
FLOOR_Y == 0

\* Math.sin on [0, pi], in thousandths, of an angle in milliradians
\* (Bhaskara's rational approximation; PI_MRAD is pi in milliradians)
PI_MRAD == 3142
SinHalf(x) ==
    LET p == x * (PI_MRAD - x)
    IN  RDiv(16 * p, (5 * PI_MRAD * PI_MRAD - 4 * p) \div 1000)

\* Math.sin of any angle in milliradians, in thousandths
Sin(a) ==
    LET r == a % (2 * PI_MRAD)
    IN  IF r <= PI_MRAD THEN SinHalf(r) ELSE -SinHalf(r - PI_MRAD)

\* windFactor = Math.sin(Date.now() * 0.005 + y * 0.1) * 0.5 + 0.5, in thousandths
WindFactor(now, y) == RDiv(Sin(now * 5 + RDiv(y * 100, UNIT)), 2) + 500

-----------------------------------------------------------------------------
(* ClothPhysics *)

\* Number of vertices of a position buffer (positions.length / 3)
Count(pos) == Cardinality(DOMAIN pos)

\* NaN: what arithmetic gives on the undefined of a read past the end of a
\* typed array, and on NaN.  Every comparison with NaN is false.  A vertex read
\* through Read(pos, p) is NaN on all three coordinates or on none.
NaN == 999999999
NaNVec == Vec(NaN, NaN, NaN)
IsNaN(v) == X(v) = NaN

\* this.positions[p * 3], [p * 3 + 1], [p * 3 + 2] as used in arithmetic
Read(pos, p) == IF p \in DOMAIN pos THEN pos[p] ELSE NaNVec

\* this.positions[p * 3] = x, ...: a write past the end of a typed array is dropped
Write(pos, p, v) == IF p \in DOMAIN pos THEN [pos EXCEPT ![p] = v] ELSE pos

\* addConstraint that pushes nothing for an edge the list already holds
AddConstraintOnce(pos, cs, p1, p2) ==
    IF \E k \in 1..Len(cs) : {cs[k][1], cs[k][2]} = {p1, p2} THEN cs
    ELSE LET v1 == Read(pos, p1)
             v2 == Read(pos, p2)
         IN  Append(cs, <<p1, p2, IF IsNaN(v1) \/ IsNaN(v2) THEN NaN ELSE DistanceTo(v1, v2)>>)

\* addConstraint measuring the rest length in the x-y plane only
AddConstraintPlanar(pos, cs, p1, p2) ==
    LET v1 == Read(pos, p1)
        v2 == Read(pos, p2)
    IN  Append(cs, <<p1, p2, IF IsNaN(v1) \/ IsNaN(v2) THEN NaN
                             ELSE DistanceTo(Vec(X(v1), Y(v1), 0), Vec(X(v2), Y(v2), 0))>>)

\* addConstraint: the constraint list with (p1, p2, current distance) pushed
AddConstraint(pos, cs, p1, p2) ==
    LET v1 == Read(pos, p1)
        v2 == Read(pos, p2)
    IN  Append(cs, <<p1, p2, IF IsNaN(v1) \/ IsNaN(v2) THEN NaN ELSE DistanceTo(v1, v2)>>)

\* generateConstraints: three constraints per triangle of the index buffer
\* (a geometry without index is one with the empty index: no constraint)
RECURSIVE GenerateConstraints(_, _, _, _)
GenerateConstraints(pos, index, i, cs) ==
    IF i + 2 > Len(index) THEN cs
    ELSE LET a == index[i]
             b == index[i + 1]
             c == index[i + 2]
         IN  GenerateConstraints(pos, index, i + 3,
                 AddConstraint(pos, AddConstraint(pos, AddConstraint(pos, cs, a, b), b, c), c, a))

\* new ClothPhysics(geo, pinIndices)
NewClothPhysics(geo, pinIndices) ==
    [positions |-> geo.position,
     prevPositions |-> geo.position,
     originalPositions |-> geo.position,
     pins |-> pinIndices,
     constraints |-> GenerateConstraints(geo.position, geo.index, 1, <<>>),
     interactionParticleIndex |-> NULL,
     interactionPosition |-> Vec(0, 0, 0)]

\* pins.includes(i)
IsPin(c, i) == i \in c.pins

\* this.interactionParticleIndex === i
IsInteracted(c, i) == c.interactionParticleIndex = i

\* the force displacement  f * TIMESTEP * TIMESTEP
ForceStep(f) == RDiv(f * TIMESTEP_NUM * TIMESTEP_NUM, TIMESTEP_DEN * TIMESTEP_DEN)

\* (x - ox) * DRAG
Velocity(x, ox) == RDiv((x - ox) * DRAG_NUM, DRAG_DEN)

\* IntegrateVertex without  prevPositions[idx] = x  for a vertex under forces
IntegrateVertexKeepPrev(c, i, wind, gravity, now) ==
    IF IsPin(c, i) THEN c
    ELSE IF IsInteracted(c, i) THEN
        LET p == IF IsNaN(c.interactionPosition) THEN NaNVec
                 ELSE FroundVec(c.interactionPosition)
        IN  [c EXCEPT !.positions[i] = p, !.prevPositions[i] = p]
    ELSE IF IsNaN(c.positions[i]) \/ IsNaN(c.prevPositions[i]) THEN
        [c EXCEPT !.positions[i] = NaNVec]
    ELSE
        LET cur == c.positions[i]
            old == c.prevPositions[i]
            windFactor == WindFactor(now, Y(cur))
            nx == X(cur) + Velocity(X(cur), X(old)) + ForceStep(RDiv(X(wind) * windFactor, 1000))
            ny == Y(cur) + Velocity(Y(cur), Y(old)) + ForceStep(gravity)
            nz == Z(cur) + Velocity(Z(cur), Z(old)) + ForceStep(RDiv(Z(wind) * windFactor, 1000))
        IN  [c EXCEPT !.positions[i] = FroundVec(Vec(nx, ny, nz))]

\* IntegrateVertex with wind.y lifting the vertex: the vertical force is
\* gravity + wind.y * windFactor
IntegrateVertexWindLift(c, i, wind, gravity, now) ==
    IF IsPin(c, i) THEN c
    ELSE IF IsInteracted(c, i) THEN
        LET p == IF IsNaN(c.interactionPosition) THEN NaNVec
                 ELSE FroundVec(c.interactionPosition)
        IN  [c EXCEPT !.positions[i] = p, !.prevPositions[i] = p]
    ELSE IF IsNaN(c.positions[i]) \/ IsNaN(c.prevPositions[i]) THEN
        [c EXCEPT !.prevPositions[i] = c.positions[i], !.positions[i] = NaNVec]
    ELSE
        LET cur == c.positions[i]
            old == c.prevPositions[i]
            windFactor == WindFactor(now, Y(cur))
            nx == X(cur) + Velocity(X(cur), X(old)) + ForceStep(RDiv(X(wind) * windFactor, 1000))
            ny == Y(cur) + Velocity(Y(cur), Y(old))
                  + ForceStep(gravity + RDiv(Y(wind) * windFactor, 1000))
            nz == Z(cur) + Velocity(Z(cur), Z(old)) + ForceStep(RDiv(Z(wind) * windFactor, 1000))
        IN  [c EXCEPT !.prevPositions[i] = cur,
                      !.positions[i] = FroundVec(Vec(nx, ny, nz))]

\* One pass of the integration loop body for vertex i
IntegrateVertex(c, i, wind, gravity, now) ==
    IF IsPin(c, i) THEN c
    ELSE IF IsInteracted(c, i) THEN
        LET p == IF IsNaN(c.interactionPosition) THEN NaNVec
                 ELSE FroundVec(c.interactionPosition)
        IN  [c EXCEPT !.positions[i] = p, !.prevPositions[i] = p]
    ELSE IF IsNaN(c.positions[i]) \/ IsNaN(c.prevPositions[i]) THEN
        [c EXCEPT !.prevPositions[i] = c.positions[i], !.positions[i] = NaNVec]
    ELSE
        LET cur == c.positions[i]
            old == c.prevPositions[i]
            windFactor == WindFactor(now, Y(cur))
            nx == X(cur) + Velocity(X(cur), X(old)) + ForceStep(RDiv(X(wind) * windFactor, 1000))
            ny == Y(cur) + Velocity(Y(cur), Y(old)) + ForceStep(gravity)
            nz == Z(cur) + Velocity(Z(cur), Z(old)) + ForceStep(RDiv(Z(wind) * windFactor, 1000))
        IN  [c EXCEPT !.prevPositions[i] = cur,
                      !.positions[i] = FroundVec(Vec(nx, ny, nz))]

\* 1. Integration: for (let i = 0; i < count; i++)
RECURSIVE Integrate(_, _, _, _, _)
Integrate(c, i, wind, gravity, now) ==
    IF i >= Count(c.positions) THEN c
    ELSE Integrate(IntegrateVertex(c, i, wind, gravity, now), i + 1, wind, gravity, now)

\* RelaxMove with the sign of the translations reversed
RelaxMoveApart(c, con) ==
    LET v1 == c.positions[con[1]]
        v2 == c.positions[con[2]]
        currDist == DistanceTo(v1, v2)
        Half(d) == RDiv(d * (currDist - con[3]), 2 * currDist)
    IN  IF currDist = 0 \/ c.pins # {} \/ c.interactionParticleIndex # NULL THEN c
        ELSE [c EXCEPT !.positions =
                 [[c.positions EXCEPT ![con[1]] =
                       FroundVec(Vec(X(v1) - Half(X(v2) - X(v1)), Y(v1) - Half(Y(v2) - Y(v1)),
                                     Z(v1) - Half(Z(v2) - Z(v1))))]
                  EXCEPT ![con[2]] =
                       FroundVec(Vec(X(v2) + Half(X(v2) - X(v1)), Y(v2) + Half(Y(v2) - Y(v1)),
                                     Z(v2) + Half(Z(v2) - Z(v1))))]]

\* RelaxMove that takes the second endpoint for free whatever isP2Pinned says
RelaxMoveSecondFree(c, con) ==
    LET p1 == con[1]
        p2 == con[2]
        rest == con[3]
        isP1Pinned == IsPin(c, p1) \/ IsInteracted(c, p1)
        v1 == Read(c.positions, p1)
        v2 == Read(c.positions, p2)
        dx == X(v2) - X(v1)
        dy == Y(v2) - Y(v1)
        dz == Z(v2) - Z(v1)
        currDist == Sqrt(dx * dx + dy * dy + dz * dz)
        Half(d) == RDiv(d * (currDist - rest), 2 * currDist)
        n1 == IF isP1Pinned THEN v1
              ELSE FroundVec(Vec(X(v1) + Half(dx), Y(v1) + Half(dy), Z(v1) + Half(dz)))
        n2 == FroundVec(Vec(X(v2) - Half(dx), Y(v2) - Half(dy), Z(v2) - Half(dz)))
    IN  IF IsNaN(v1) \/ IsNaN(v2) \/ rest = NaN \/ currDist = 0 THEN
            [c EXCEPT !.positions =
                 Write(Write(c.positions, p1, IF isP1Pinned THEN v1 ELSE NaNVec), p2, NaNVec)]
        ELSE [c EXCEPT !.positions = [[c.positions EXCEPT ![p1] = n1] EXCEPT ![p2] = n2]]

\* The relaxation loop body from  const diff = ...  on: the translations and
\* the two guarded writes (with currDist 0 the division gives NaN or an
\* infinity, and the translations 0 * diff are NaN)
RelaxMove(c, con) ==
    LET p1 == con[1]
        p2 == con[2]
        rest == con[3]
        isP1Pinned == IsPin(c, p1) \/ IsInteracted(c, p1)
        isP2Pinned == IsPin(c, p2) \/ IsInteracted(c, p2)
        v1 == Read(c.positions, p1)
        v2 == Read(c.positions, p2)
        dx == X(v2) - X(v1)
        dy == Y(v2) - Y(v1)
        dz == Z(v2) - Z(v1)
        currDist == Sqrt(dx * dx + dy * dy + dz * dz)
        \* d * diff * 0.5  with  diff = (currDist - rest) / currDist
        Half(d) == RDiv(d * (currDist - rest), 2 * currDist)
        n1 == IF isP1Pinned THEN v1
              ELSE FroundVec(Vec(X(v1) + Half(dx), Y(v1) + Half(dy), Z(v1) + Half(dz)))
        n2 == IF isP2Pinned THEN v2
              ELSE FroundVec(Vec(X(v2) - Half(dx), Y(v2) - Half(dy), Z(v2) - Half(dz)))
    IN  IF isP1Pinned /\ isP2Pinned THEN c
        ELSE IF IsNaN(v1) \/ IsNaN(v2) \/ rest = NaN \/ currDist = 0 THEN
            \* currDist or diff is NaN (NaN === 0 is false): the translations are NaN
            [c EXCEPT !.positions =
                 Write(Write(c.positions, p1, IF isP1Pinned THEN v1 ELSE NaNVec),
                       p2, IF isP2Pinned THEN v2 ELSE NaNVec)]
        ELSE [c EXCEPT !.positions = [[c.positions EXCEPT ![p1] = n1] EXCEPT ![p2] = n2]]

\* currDist === 0  (false for NaN)
Coincide(c, con) ==
    LET v1 == Read(c.positions, con[1])
        v2 == Read(c.positions, con[2])
    IN  ~IsNaN(v1) /\ ~IsNaN(v2) /\ DistanceTo(v1, v2) = 0

\* The loop body without  if (currDist === 0) continue
RelaxConstraintNoZeroGuard(c, con) == RelaxMove(c, con)

\* The relaxation loop body for the constraint (p1, p2, rest)
RelaxConstraint(c, con) == IF Coincide(c, con) THEN c ELSE RelaxMove(c, con)

\* for (let i = 0; i < this.constraints.length; i += 3)
RECURSIVE RelaxAll(_, _)
RelaxAll(c, i) ==
    IF i > Len(c.constraints) THEN c
    ELSE RelaxAll(RelaxConstraint(c, c.constraints[i]), i + 1)

\* FloorVertex with pinned vertices left alone
FloorVertexSkipPins(c, i) ==
    LET cur == c.positions[i]
    IN  IF Y(cur) < FLOOR_Y /\ ~IsPin(c, i)
        THEN [c EXCEPT !.positions[i] = Vec(X(cur), FLOOR_Y, Z(cur))]
        ELSE c

\* FloorVertex that stops the vertex: previous position := clamped position
FloorVertexStop(c, i) ==
    LET cur == c.positions[i]
    IN  IF ~IsNaN(cur) /\ Y(cur) < FLOOR_Y THEN
            [c EXCEPT !.positions[i] = Vec(X(cur), FLOOR_Y, Z(cur)),
                      !.prevPositions[i] = Vec(X(cur), FLOOR_Y, Z(cur))]
        ELSE c

\* The floor loop body for vertex i
FloorVertex(c, i) ==
    LET cur == c.positions[i]
        old == c.prevPositions[i]
        Damp(cv, ov) == Fround(cv - RDiv((cv - ov) * FRICTION_NUM, FRICTION_DEN))
    IN  IF ~IsNaN(cur) /\ Y(cur) < FLOOR_Y THEN
            [c EXCEPT !.positions[i] = Vec(X(cur), FLOOR_Y, Z(cur)),
                      !.prevPositions[i] = IF IsNaN(old) THEN old
                                           ELSE Vec(Damp(X(cur), X(old)), Y(old), Damp(Z(cur), Z(old)))]
        ELSE c

\* Floor constraint: for (let i = 0; i < count; i++)
RECURSIVE FloorPass(_, _)
FloorPass(c, i) ==
    IF i >= Count(c.positions) THEN c
    ELSE FloorPass(FloorVertex(c, i), i + 1)

\* The relaxation loop with the floor loop after it instead of inside it
RECURSIVE RelaxationFloorLast(_, _)
RelaxationFloorLast(c, k) ==
    IF k >= RELAX_ITERATIONS THEN FloorPass(c, 0)
    ELSE RelaxationFloorLast(RelaxAll(c, 1), k + 1)

\* 2. Constraints Relaxation: for (let k = 0; k < 3; k++)
RECURSIVE Relaxation(_, _)
Relaxation(c, k) ==
    IF k >= RELAX_ITERATIONS THEN c
    ELSE Relaxation(FloorPass(RelaxAll(c, 1), 0), k + 1)

\* update(wind, gravity), with the value Date.now() returns
UpdateCloth(c, wind, gravity, now) == Relaxation(Integrate(c, 0, wind, gravity, now), 0)

\* The solver object held in the state variables
Cloth ==
    [positions |-> positions, prevPositions |-> prevPositions,
     originalPositions |-> originalPositions, pins |-> pins, constraints |-> constraints,
     interactionParticleIndex |-> interactionParticleIndex,
     interactionPosition |-> interactionPosition]

SetCloth(c) ==
    /\ positions' = c.positions
    /\ prevPositions' = c.prevPositions
    /\ originalPositions' = c.originalPositions
    /\ pins' = c.pins
    /\ constraints' = c.constraints
    /\ interactionParticleIndex' = c.interactionParticleIndex
    /\ interactionPosition' = c.interactionPosition

-----------------------------------------------------------------------------
(* OrigamiSolver *)

EPSILON_DEN == 1000

\* Angles are counted in quarter turns; Math.PI is two of them
ANGLE_PI == 2

\* Math.cos and Math.sin of a number of quarter turns
Cos4(k) == CASE k % 4 = 0 -> 1 [] k % 4 = 2 -> -1 [] OTHER -> 0
Sin4(k) == CASE k % 4 = 1 -> 1 [] k % 4 = 3 -> -1 [] OTHER -> 0

\* THREE.Vector3.normalize of a vector in the drafting plane: divideScalar(length || 1);
\* a direction has components in 1/UNIT
Normalize2(x, y) ==
    LET len == Sqrt(x * x + y * y)
    IN  IF len = 0 THEN <<x, y>> ELSE <<RDiv(x * UNIT, len), RDiv(y * UNIT, len)>>

\* cutNormal = crossVectors(axis, (0, 0, 1)).normalize()
CutNormal(axis) == Normalize2(Y(axis), 0 - X(axis))

\* getSide(idx): the sign of (v - origin) . cutNormal outside the +-0.001 dead-zone
GetSide(basePositions, origin, axis, idx) ==
    LET v == basePositions[idx]
        cutNormal == CutNormal(axis)
        val == (X(v) - X(origin)) * cutNormal[1] + (Y(v) - Y(origin)) * cutNormal[2]
        eps == (UNIT * UNIT) \div EPSILON_DEN
    IN  IF val > eps THEN 1
        ELSE IF val < 0 - eps THEN -1
        ELSE 0

\* VisitNeighbor taking the vertices on the line into the moving set
VisitNeighborHinge(basePositions, origin, axis, seedSide, b, n) ==
    IF n \in b.visited THEN b
    ELSE IF n \notin DOMAIN basePositions THEN [b EXCEPT !.threw = TRUE]
    ELSE LET side == GetSide(basePositions, origin, axis, n)
         IN  IF side = seedSide THEN
                 [b EXCEPT !.visited = @ \cup {n}, !.indices = @ \cup {n}, !.queue = Append(@, n)]
             ELSE IF side = 0 THEN [b EXCEPT !.visited = @ \cup {n}, !.indices = @ \cup {n}]
             ELSE b

\* VisitNeighbor that selects a same-side neighbour without queueing it
VisitNeighborNoPush(basePositions, origin, axis, seedSide, b, n) ==
    IF n \in b.visited THEN b
    ELSE IF n \notin DOMAIN basePositions THEN [b EXCEPT !.threw = TRUE]
    ELSE LET side == GetSide(basePositions, origin, axis, n)
         IN  IF side = seedSide THEN
                 [b EXCEPT !.visited = @ \cup {n}, !.indices = @ \cup {n}]
             ELSE IF side = 0 THEN [b EXCEPT !.visited = @ \cup {n}]
             ELSE b

\* VisitNeighbor that marks a same-side neighbour visited only when it meets it again
VisitNeighborMarkLate(basePositions, origin, axis, seedSide, b, n) ==
    IF n \in b.visited THEN b
    ELSE IF n \notin DOMAIN basePositions THEN [b EXCEPT !.threw = TRUE]
    ELSE LET side == GetSide(basePositions, origin, axis, n)
         IN  IF side = seedSide THEN
                 IF n \in b.indices
                 THEN [b EXCEPT !.visited = @ \cup {n}, !.queue = Append(@, n)]
                 ELSE [b EXCEPT !.indices = @ \cup {n}, !.queue = Append(@, n)]
             ELSE IF side = 0 THEN [b EXCEPT !.visited = @ \cup {n}]
             ELSE b

\* The body of  for (const n of ns)  for the neighbour n; b is the traversal's
\* state [queue, indices, visited, threw]
VisitNeighbor(basePositions, origin, axis, seedSide, b, n) ==
    IF n \in b.visited THEN b
    ELSE IF n \notin DOMAIN basePositions THEN [b EXCEPT !.threw = TRUE]
    ELSE LET side == GetSide(basePositions, origin, axis, n)
         IN  IF side = seedSide THEN
                 [b EXCEPT !.visited = @ \cup {n}, !.indices = @ \cup {n}, !.queue = Append(@, n)]
             ELSE IF side = 0 THEN [b EXCEPT !.visited = @ \cup {n}]
             ELSE b

RECURSIVE VisitNeighbors(_, _, _, _, _, _, _)
VisitNeighbors(basePositions, origin, axis, seedSide, b, ns, k) ==
    IF k > Len(ns) \/ b.threw THEN b
    ELSE CHOOSE r \in {VisitNeighbors(basePositions, origin, axis, seedSide, v, ns, k + 1) :
                          v \in {VisitNeighbor(basePositions, origin, axis, seedSide, b, ns[k])}} : TRUE

\* One pass of the while loop's body: const curr = queue.pop(); const ns =
\* neighbors[curr]; if (!ns) continue; for (const n of ns) ...
TraverseStep(basePositions, neighbors, origin, axis, seedSide, b) ==
    LET curr == b.queue[Len(b.queue)]
        popped == [b EXCEPT !.queue = SubSeq(@, 1, Len(@) - 1)]
    IN  IF curr \notin DOMAIN neighbors THEN popped
        ELSE VisitNeighbors(basePositions, origin, axis, seedSide, popped, neighbors[curr], 1)

\* while (queue.length > 0) { ... }
RECURSIVE Traverse(_, _, _, _, _, _)
Traverse(basePositions, neighbors, origin, axis, seedSide, b) ==
    IF b.queue = <<>> \/ b.threw THEN b
    ELSE Traverse(basePositions, neighbors, origin, axis, seedSide,
                  TraverseStep(basePositions, neighbors, origin, axis, seedSide, b))

\* computeFoldIndices without the return for a seed on the line
ComputeFoldIndicesNoLineCheck(basePositions, neighbors, origin, axis, seedIdx) ==
    IF seedIdx \notin DOMAIN basePositions THEN [threw |-> TRUE, indices |-> {}]
    ELSE LET b == Traverse(basePositions, neighbors, origin, axis,
                      GetSide(basePositions, origin, axis, seedIdx),
                      [queue |-> <<seedIdx>>, indices |-> {seedIdx},
                       visited |-> {seedIdx}, threw |-> FALSE])
         IN  [threw |-> b.threw, indices |-> IF b.threw THEN {} ELSE b.indices]

\* computeFoldIndices reading the seed with optional chaining: no vertex, side 0
ComputeFoldIndicesSilentSeed(basePositions, neighbors, origin, axis, seedIdx) ==
    IF seedIdx \notin DOMAIN basePositions THEN [threw |-> FALSE, indices |-> {}]
    ELSE LET seedSide == GetSide(basePositions, origin, axis, seedIdx)
         IN  IF seedSide = 0 THEN [threw |-> FALSE, indices |-> {}]
             ELSE LET b == Traverse(basePositions, neighbors, origin, axis, seedSide,
                               [queue |-> <<seedIdx>>, indices |-> {seedIdx},
                                visited |-> {seedIdx}, threw |-> FALSE])
                  IN  [threw |-> b.threw, indices |-> IF b.threw THEN {} ELSE b.indices]

\* OrigamiSolver.computeFoldIndices: [threw, indices]; threw is the TypeError of
\* reading a vertex that is not in basePositions
ComputeFoldIndices(basePositions, neighbors, origin, axis, seedIdx) ==
    IF seedIdx \notin DOMAIN basePositions THEN [threw |-> TRUE, indices |-> {}]
    ELSE LET seedSide == GetSide(basePositions, origin, axis, seedIdx)
         IN  IF seedSide = 0 THEN [threw |-> FALSE, indices |-> {}]
             ELSE LET b == Traverse(basePositions, neighbors, origin, axis, seedSide,
                               [queue |-> <<seedIdx>>, indices |-> {seedIdx},
                                visited |-> {seedIdx}, threw |-> FALSE])
                  IN  [threw |-> b.threw, indices |-> IF b.threw THEN {} ELSE b.indices]

\* THREE.Vector3.applyAxisAngle(axis, angle) for a normalized axis
ApplyAxisAngle(v, axis, angle) ==
    LET c == Cos4(angle)
        s == Sin4(angle)
        dot == RDiv(X(axis) * X(v) + Y(axis) * Y(v) + Z(axis) * Z(v), UNIT)
        cx == RDiv(Y(axis) * Z(v) - Z(axis) * Y(v), UNIT)
        cy == RDiv(Z(axis) * X(v) - X(axis) * Z(v), UNIT)
        cz == RDiv(X(axis) * Y(v) - Y(axis) * X(v), UNIT)
    IN  Vec(X(v) * c + cx * s + RDiv(X(axis) * dot * (1 - c), UNIT),
            Y(v) * c + cy * s + RDiv(Y(axis) * dot * (1 - c), UNIT),
            Z(v) * c + cz * s + RDiv(Z(axis) * dot * (1 - c), UNIT))

\* tempV.z += 0.05
PaperThickness == UNIT \div 20

\* FoldPoint rotating about the axis through the world origin (no translation
\* to fold.origin and back)
FoldPointAboutWorldOrigin(tempV, fold) ==
    LET r == ApplyAxisAngle(tempV, fold.axis, fold.angle)
    IN  Vec(X(r), Y(r), Z(r) + PaperThickness)

\* The body of  if (fold.indices.has(i))
FoldPoint(tempV, fold) ==
    LET t == Vec(X(tempV) - X(fold.origin), Y(tempV) - Y(fold.origin), Z(tempV) - Z(fold.origin))
        r == ApplyAxisAngle(t, fold.axis, fold.angle)
    IN  Vec(X(r) + X(fold.origin), Y(r) + Y(fold.origin), Z(r) + Z(fold.origin) + PaperThickness)

\* FoldVertex with the list walked from its last fold to its first
RECURSIVE FoldVertexBackwards(_, _, _, _)
FoldVertexBackwards(tempV, fs, i, k) ==
    IF k > Len(fs) THEN tempV
    ELSE LET f == fs[Len(fs) + 1 - k]
         IN  FoldVertexBackwards(IF i \in f.indices THEN FoldPoint(tempV, f) ELSE tempV, fs, i, k + 1)

\* for (const fold of folds)  on vertex i, from the working point tempV
RECURSIVE FoldVertex(_, _, _, _)
FoldVertex(tempV, fs, i, k) ==
    IF k > Len(fs) THEN tempV
    ELSE FoldVertex(IF i \in fs[k].indices THEN FoldPoint(tempV, fs[k]) ELSE tempV, fs, i, k + 1)

\* targetAttribute.setXYZ(i, x, y, z): a THREE.BufferAttribute stores into its
\* Float32Array; HanfuModel's mockAttr stores into tempPositions[i], the very
\* array it passes as basePositions
SetXYZ(a, sink, i, v) ==
    IF sink = "mockAttr" THEN [a EXCEPT !.basePositions[i] = v]
    ELSE [a EXCEPT !.target[i] = FroundVec(v)]

\* for (let i = 0; i < basePositions.length; i++); a is [basePositions, target]
RECURSIVE ApplyFoldsLoop(_, _, _, _)
ApplyFoldsLoop(a, fs, sink, i) ==
    IF i >= Count(a.basePositions) THEN a
    ELSE ApplyFoldsLoop(SetXYZ(a, sink, i, FoldVertex(a.basePositions[i], fs, i, 1)), fs, sink, i + 1)

\* OrigamiSolver.applyFolds(basePositions, folds, targetAttribute): the arrays
\* [basePositions, target] after the call
ApplyFolds(basePositions, fs, target, sink) ==
    ApplyFoldsLoop([basePositions |-> basePositions, target |-> target], fs, sink, 0)

-----------------------------------------------------------------------------
(* generateHanfuGeometry: the plane grid, the triangle filter, the adjacency *)
(* lists, the base positions and the pins.  The garment outline is a set of  *)
(* grid vertices (those isPointInPattern accepts).                           *)

\* A set of integers as the ascending sequence of its elements
RECURSIVE Ascending(_)
Ascending(S) ==
    IF S = {} THEN <<>>
    ELSE LET m == CHOOSE x \in S : \A y \in S : x <= y
         IN  <<m>> \o Ascending(S \ {m})

\* THREE.PlaneGeometry(width, height, wSeg, hSeg) with square cells of side `cell`:
\* vertex ix + (wSeg + 1) * iy at (ix * cell - width / 2, height / 2 - iy * cell, 0),
\* stored in the Float32Array of the position attribute
PlanePositions(wSeg, hSeg, cell) ==
    [i \in 0..((wSeg + 1) * (hSeg + 1) - 1) |->
        FroundVec(Vec((i % (wSeg + 1)) * cell - (wSeg * cell) \div 2,
                      (hSeg * cell) \div 2 - (i \div (wSeg + 1)) * cell,
                      0))]

\* THREE.PlaneGeometry's index: per cell the triangles (a, b, d) and (b, c, d)
RECURSIVE PlaneIndex(_, _, _)
PlaneIndex(wSeg, hSeg, k) ==
    IF k >= wSeg * hSeg THEN <<>>
    ELSE LET ix == k % wSeg
             iy == k \div wSeg
             a == ix + (wSeg + 1) * iy
             b == ix + (wSeg + 1) * (iy + 1)
             c == (ix + 1) + (wSeg + 1) * (iy + 1)
             d == (ix + 1) + (wSeg + 1) * iy
         IN  <<a, b, d, b, c, d>> \o PlaneIndex(wSeg, hSeg, k + 1)

\* Filter Loop: a triangle is kept when its three vertices are in the pattern
RECURSIVE FilterTriangles(_, _, _)
FilterTriangles(index, pattern, i) ==
    IF i + 2 > Len(index) THEN <<>>
    ELSE (IF {index[i], index[i + 1], index[i + 2]} \subseteq pattern
          THEN <<index[i], index[i + 1], index[i + 2]>> ELSE <<>>)
         \o FilterTriangles(index, pattern, i + 3)

\* addNeighbor(i, n): each list gets the other vertex unless it already holds it
AddNeighbor(nm, i, n) ==
    LET one == [nm EXCEPT ![i] = IF \E k \in 1..Len(@) : @[k] = n THEN @ ELSE Append(@, n)]
    IN  [one EXCEPT ![n] = IF \E k \in 1..Len(@) : @[k] = i THEN @ ELSE Append(@, i)]

\* 2. Build Adjacency
RECURSIVE BuildAdjacency(_, _, _)
BuildAdjacency(nm, finalIndices, i) ==
    IF i + 2 > Len(finalIndices) THEN nm
    ELSE LET a == finalIndices[i]
             b == finalIndices[i + 1]
             c == finalIndices[i + 2]
         IN  BuildAdjacency(AddNeighbor(AddNeighbor(AddNeighbor(nm, a, b), b, c), c, a),
                            finalIndices, i + 3)

\* The pin rule: Math.abs(x) < 2 && Math.abs(y) < 2
PIN_RADIUS == 2

\* generateHanfuGeometry(params), params = [wSeg, hSeg, cell, pattern]
GenerateHanfuGeometry(params) ==
    LET pos == PlanePositions(params.wSeg, params.hSeg, params.cell)
        finalIndices == FilterTriangles(PlaneIndex(params.wSeg, params.hSeg, 0), params.pattern, 1)
    IN  [basePositions |-> pos,
         neighbors |-> BuildAdjacency([i \in DOMAIN pos |-> <<>>], finalIndices, 1),
         pins |-> {i \in DOMAIN pos :
                     Abs(X(pos[i])) < PIN_RADIUS * UNIT /\ Abs(Y(pos[i])) < PIN_RADIUS * UNIT},
         index |-> finalIndices]

-----------------------------------------------------------------------------
(* The cloth solver driven by its callers: construction, the interaction   *)
(* methods and the frame loop's update().                                  *)

MaxUpdates == 2

\* Heights a vertex of a solver's initial pose may have: below and above the floor
ClothHeights == {0 - 2 * QUANT, UNIT \div 10}

\* The geometries a solver is constructed on: one right triangle with legs of length
\* UNIT along x and z, vertex 2 above the floor
ClothGeos ==
    {[position |-> [i \in 0..2 |->
          FroundVec(Vec((i % 2) * UNIT, IF i = 2 THEN UNIT \div 10 ELSE h[i], (i \div 2) * UNIT))],
      index |-> <<0, 1, 2>>] : h \in [0..1 -> ClothHeights]}

ClothPinSets == {{}, {0, 2}}

\* Targets updateInteraction is called with: a point off the Float32 grid, below the floor
InteractionTargets ==
    {Vec(UNIT \div 2 + 1, 0 - UNIT \div 5, 1)}

\* What a frame passes to update(): the wind vector, the gravity scalar, and the clock it reads
Frames ==
    {[wind |-> Vec(0, 0, 0), gravity |-> 0, now |-> 0],
     [wind |-> Vec(0, 0, 0), gravity |-> 0 - 10 * UNIT, now |-> 0],
     [wind |-> Vec(20 * UNIT, 3 * UNIT, 10 * UNIT), gravity |-> 0 - 10 * UNIT, now |-> 300]}

NoGeometry == [basePositions |-> <<>>, neighbors |-> <<>>, pins |-> {}, index |-> <<>>]
NoPoint == [vIdx |-> NULL, pos |-> Vec(0, 0, 0)]

IdleSolver ==
    /\ geometryData = NoGeometry
    /\ partition = [called |-> FALSE]
    /\ composed = [called |-> FALSE]

IdleUI ==
    /\ folds = <<>>
    /\ mode = "DRAG_FOLD"
    /\ startPoint = NoPoint
    /\ meshPositions = <<>>
    /\ clock = 0

InitCloth ==
    /\ \E geo \in ClothGeos, pinIndices \in ClothPinSets :
         LET c == NewClothPhysics(geo, pinIndices)
         IN  /\ positions = c.positions
             /\ prevPositions = c.prevPositions
             /\ originalPositions = c.originalPositions
             /\ pins = c.pins
             /\ constraints = c.constraints
             /\ interactionParticleIndex = c.interactionParticleIndex
             /\ interactionPosition = c.interactionPosition
    /\ updates = 0
    /\ IdleSolver
    /\ IdleUI

\* startInteraction(index) without the sync of interactionPosition
StartInteractionKeepTarget(index) ==
    /\ SetCloth([Cloth EXCEPT !.interactionParticleIndex = index])
    /\ UNCHANGED <<updates, solverVars, uiVars>>

\* startInteraction(index)
StartInteraction(index) ==
    /\ SetCloth([Cloth EXCEPT !.interactionParticleIndex = index,
                              !.interactionPosition = positions[index]])
    /\ UNCHANGED <<updates, solverVars, uiVars>>

\* updateInteraction(pos)
UpdateInteraction(pos) ==
    /\ SetCloth([Cloth EXCEPT !.interactionPosition = pos])
    /\ UNCHANGED <<updates, solverVars, uiVars>>

\* endInteraction()
EndInteraction ==
    /\ SetCloth([Cloth EXCEPT !.interactionParticleIndex = NULL])
    /\ UNCHANGED <<updates, solverVars, uiVars>>

\* update(wind, gravity) called from the frame loop
Update(wind, gravity, now) ==
    /\ updates < MaxUpdates
    /\ SetCloth(UpdateCloth(Cloth, wind, gravity, now))
    /\ updates' = updates + 1
    /\ UNCHANGED <<solverVars, uiVars>>

NextCloth ==
    \/ \E index \in DOMAIN positions : StartInteraction(index)
    \/ \E pos \in InteractionTargets : UpdateInteraction(pos)
    \/ EndInteraction
    \/ \E f \in Frames : Update(f.wind, f.gravity, f.now)

SpecCloth == InitCloth /\ [][NextCloth]_vars

\* The solver constructed on a geometry whose index buffer names a vertex that
\* is not in the position buffer (a caller's contract violation)
FaultyIndices == {<<0, 1, 3>>, <<0, 1, 2, 2, 1, 3>>}
FaultyGeos == {[geo EXCEPT !.index = index] : geo \in ClothGeos, index \in FaultyIndices}

InitClothFault ==
    /\ \E geo \in FaultyGeos, pinIndices \in ClothPinSets :
         LET c == NewClothPhysics(geo, pinIndices)
         IN  /\ positions = c.positions
             /\ prevPositions = c.prevPositions
             /\ originalPositions = c.originalPositions
             /\ pins = c.pins
             /\ constraints = c.constraints
             /\ interactionParticleIndex = c.interactionParticleIndex
             /\ interactionPosition = c.interactionPosition
    /\ updates = 0
    /\ IdleSolver
    /\ IdleUI

SpecClothFault == InitClothFault /\ [][NextCloth]_vars

-----------------------------------------------------------------------------
(* The constraint loop of update() on its own: one constraint (0, 1, rest)   *)
(* between two vertices, relaxed again and again with nothing else acting.   *)
(* Here updates counts the passes of the loop.                               *)

MaxRelaxations == 3

\* Where vertex 1 is (vertex 0 is at the origin): on vertex 0, one Float32 step
\* away, on an axis, in the plane, in space
RelaxEnds ==
    {Vec(0, 0, 0), Vec(QUANT, 0, 0), Vec(3 * QUANT, QUANT, 0), Vec(UNIT, 0, 0),
     Vec((3 * UNIT) \div 10, (4 * UNIT) \div 10, 0),
     Vec(UNIT \div 3, UNIT \div 7, 0 - UNIT \div 9)}

\* Rest lengths: the distance of a constraint built on coinciding vertices, and others
RelaxRests == {0, 1, 2 * QUANT, UNIT \div 2, UNIT}

RelaxPinSets == {{}, {0}, {0, 1}}

InitRelax ==
    /\ \E end \in RelaxEnds :
         /\ positions = (0 :> Vec(0, 0, 0)) @@ (1 :> FroundVec(end))
         /\ prevPositions = positions
         /\ originalPositions = positions
    /\ \E rest \in RelaxRests : constraints = <<<<0, 1, rest>>>>
    /\ pins \in RelaxPinSets
    /\ interactionParticleIndex \in {NULL, 1}
    /\ interactionPosition = IF interactionParticleIndex = NULL THEN Vec(0, 0, 0)
                             ELSE positions[interactionParticleIndex]
    /\ updates = 0
    /\ IdleSolver
    /\ IdleUI

\* for (let i = 0; i < this.constraints.length; i += 3) { ... }
Relax ==
    /\ updates < MaxRelaxations
    /\ SetCloth(RelaxAll(Cloth, 1))
    /\ updates' = updates + 1
    /\ UNCHANGED <<solverVars, uiVars>>

NextRelax == Relax

SpecRelax == InitRelax /\ [][NextRelax]_vars

-----------------------------------------------------------------------------
(* computeFoldIndices called on any base positions, adjacency lists, origin, *)
(* axis and seed.                                                            *)

MaxDegree == 2

\* Three vertices in the drafting plane
GraphPositions == (0 :> Vec(0, UNIT, 0)) @@ (1 :> Vec(0, 0, 0)) @@ (2 :> Vec(UNIT, UNIT, 0))

\* Every adjacency structure on them whose lists hold at most MaxDegree entries
\* (self-loops and one-way entries included)
GraphGeometries ==
    {[basePositions |-> GraphPositions,
      neighbors |-> [v \in DOMAIN GraphPositions |-> Ascending(adj[v])],
      pins |-> {}, index |-> <<>>] :
        adj \in [DOMAIN GraphPositions ->
                    {S \in SUBSET (DOMAIN GraphPositions) : Cardinality(S) <= MaxDegree}]}

\* Adjacency structures with a repeated entry, vertices without a list, and an
\* entry that is no vertex
OddGeometries ==
    {[basePositions |-> GraphPositions, neighbors |-> (0 :> <<2, 2, 0, 1>>),
      pins |-> {}, index |-> <<>>],
     [basePositions |-> GraphPositions, neighbors |-> (0 :> <<2>>) @@ (2 :> <<7, 1>>),
      pins |-> {}, index |-> <<>>]}

\* The 3 x 3 grid of generateHanfuGeometry, whole and with a corner outside the pattern
GridParams ==
    {[wSeg |-> 2, hSeg |-> 2, cell |-> UNIT, pattern |-> 0..8],
     [wSeg |-> 2, hSeg |-> 2, cell |-> UNIT, pattern |-> 0..7]}

PartitionGeometries ==
    GraphGeometries \cup OddGeometries \cup {GenerateHanfuGeometry(g) : g \in GridParams}

\* Cut lines: through a vertex, within the dead-zone of one, just outside it, between vertices
Origins == {Vec(0, 0, 0), Vec(0, 1, 0), Vec(0, 2, 0), Vec(UNIT \div 2, UNIT \div 2, 0)}
\* Directions: along x, diagonal, of slope 2 (neither has unit length), and the zero vector
Axes == {Vec(UNIT, 0, 0), Vec(UNIT, UNIT, 0), Vec(UNIT, 2 * UNIT, 0), Vec(0, 0, 0)}

NoPartition ==
    [called |-> FALSE, origin |-> Vec(0, 0, 0), axis |-> Vec(0, 0, 0), seedIdx |-> NULL,
     threw |-> FALSE, indices |-> {}]
NoComposition ==
    [called |-> FALSE, folds |-> <<>>, sink |-> "attribute",
     basePositions |-> <<>>, target |-> <<>>]

IdleCloth ==
    /\ positions = <<>>
    /\ prevPositions = <<>>
    /\ originalPositions = <<>>
    /\ constraints = <<>>
    /\ pins = {}
    /\ interactionParticleIndex = NULL
    /\ interactionPosition = Vec(0, 0, 0)
    /\ updates = 0

InitPartition ==
    /\ geometryData \in PartitionGeometries
    /\ partition = NoPartition
    /\ composed = NoComposition
    /\ IdleCloth
    /\ IdleUI

\* const indices = OrigamiSolver.computeFoldIndices(basePositions, neighbors, origin, axis, seedIdx)
\* (one call per behaviour: the function keeps no state between calls)
Partition(origin, axis, seedIdx) ==
    /\ ~partition.called
    /\ LET r == ComputeFoldIndices(geometryData.basePositions, geometryData.neighbors,
                                   origin, axis, seedIdx)
       IN  partition' = [called |-> TRUE, origin |-> origin, axis |-> axis, seedIdx |-> seedIdx,
                         threw |-> r.threw, indices |-> r.indices]
    /\ UNCHANGED <<geometryData, composed, clothVars, uiVars>>

NextPartition ==
    \E origin \in Origins, axis \in Axes,
       seedIdx \in 0..Count(geometryData.basePositions) :
        Partition(origin, axis, seedIdx)

SpecPartition == InitPartition /\ [][NextPartition]_vars

-----------------------------------------------------------------------------
(* computeFoldIndices followed through its loop, one pass of the while body  *)
(* per step.  partition holds the call's locals; pushed lists the vertices   *)
(* in the order queue received them.                                         *)

\* A cycle through a vertex with a self-loop and a repeated entry, one-way
\* entries, and a vertex without a list
CycleGeometry ==
    [basePositions |-> GraphPositions,
     neighbors |-> (0 :> <<1, 1, 0, 2>>) @@ (1 :> <<2, 0>>),
     pins |-> {}, index |-> <<>>]

\* The adjacency structures whose entries are all vertices
LoopGeometries ==
    {g \in GraphGeometries \cup OddGeometries \cup {CycleGeometry} :
        \A v \in DOMAIN g.neighbors : \A k \in 1..Len(g.neighbors[v]) :
            g.neighbors[v][k] \in DOMAIN g.basePositions}

\* Cut lines: through a vertex, between the vertices, below all of them
LoopOrigins == {Vec(0, 0, 0), Vec(UNIT \div 2, UNIT \div 2, 0), Vec(0, 0 - UNIT \div 2, 0)}
LoopAxes == {Vec(UNIT, 0, 0), Vec(UNIT, UNIT, 0), Vec(0, 0, 0)}

\* The locals after  visited.add(seedIdx), or at  return indices  for a seed on the line
LoopStart(g, origin, axis, seedIdx) ==
    LET seedSide == GetSide(g.basePositions, origin, axis, seedIdx)
        started == IF seedSide = 0 THEN <<>> ELSE <<seedIdx>>
    IN  [called |-> TRUE, origin |-> origin, axis |-> axis, seedIdx |-> seedIdx,
         seedSide |-> seedSide, threw |-> FALSE,
         queue |-> started, pushed |-> started,
         indices |-> {started[k] : k \in 1..Len(started)},
         visited |-> {started[k] : k \in 1..Len(started)},
         returned |-> seedSide = 0]

InitLoop ==
    /\ geometryData \in LoopGeometries
    /\ \E origin \in LoopOrigins, axis \in LoopAxes, seedIdx \in DOMAIN geometryData.basePositions :
          partition = LoopStart(geometryData, origin, axis, seedIdx)
    /\ composed = NoComposition
    /\ IdleCloth
    /\ IdleUI

\* One pass of  while (queue.length > 0) { ... }
LoopPass ==
    /\ ~partition.returned
    /\ ~partition.threw
    /\ partition.queue # <<>>
    /\ \E b \in {TraverseStep(geometryData.basePositions, geometryData.neighbors,
                             partition.origin, partition.axis, partition.seedSide,
                             [queue |-> partition.queue, indices |-> partition.indices,
                              visited |-> partition.visited, threw |-> partition.threw])} :
           partition' = [partition EXCEPT
                            !.queue = b.queue, !.indices = b.indices,
                            !.visited = b.visited, !.threw = b.threw,
                            !.pushed = @ \o SubSeq(b.queue, Len(partition.queue), Len(b.queue))]
    /\ UNCHANGED <<geometryData, composed, clothVars, uiVars>>

\* The loop's exit: return indices
LoopReturn ==
    /\ ~partition.returned
    /\ ~partition.threw
    /\ partition.queue = <<>>
    /\ partition' = [partition EXCEPT !.returned = TRUE]
    /\ UNCHANGED <<geometryData, composed, clothVars, uiVars>>

NextLoop == LoopPass \/ LoopReturn

\* The call runs on one thread until it returns
SpecLoop == InitLoop /\ [][NextLoop]_vars /\ WF_vars(NextLoop)

-----------------------------------------------------------------------------
(* applyFolds called on a base mesh with any ordered list of folds, writing  *)
(* into a position attribute (DraftingScene) or into HanfuModel's mockAttr.  *)

MaxFoldList == 2

\* A Fold record as handlePointerUp builds it
MakeFold(id, origin, axis, indices, angle) ==
    [id |-> id, axis |-> axis, origin |-> origin, indices |-> indices,
     angle |-> angle, targetAngle |-> angle, inverted |-> FALSE]

\* The member set computeFoldIndices gives on the geometry g
MembersOn(g, origin, axis, seedIdx) ==
    ComputeFoldIndices(g.basePositions, g.neighbors, origin, axis, seedIdx).indices

\* Two folds about parallel lines (y = 0 and y = -cell / 2) whose member sets overlap
FoldAcrossMiddle(g) ==
    MakeFold(1, Vec(0, 0, 0), Vec(UNIT, 0, 0), MembersOn(g, Vec(0, 0, 0), Vec(UNIT, 0, 0), 0), ANGLE_PI)
FoldBelowMiddle(g) ==
    MakeFold(2, Vec(0, 0 - UNIT \div 2, 0), Vec(UNIT, 0, 0),
             MembersOn(g, Vec(0, 0 - UNIT \div 2, 0), Vec(UNIT, 0, 0), 0), ANGLE_PI)

\* The folds applyFolds is called with: the two above, a fold about the vertical
\* line x = cell / 2, a quarter-turn fold and a fold of angle 0 with member sets
\* that no partition produced
FoldCandidates(g) ==
    {FoldAcrossMiddle(g), FoldBelowMiddle(g),
     MakeFold(3, Vec(UNIT \div 2, 0, 0), Vec(0, UNIT, 0),
              MembersOn(g, Vec(UNIT \div 2, 0, 0), Vec(0, UNIT, 0), 0), ANGLE_PI),
     MakeFold(4, Vec(0, 0, 0), Vec(UNIT, 0, 0), {1, 4, 8}, 1),
     MakeFold(5, Vec(UNIT, UNIT, 0), Vec(0, UNIT, 0), {0, 4}, 0)}

\* Every list of at most n folds
RECURSIVE FoldLists(_, _)
FoldLists(F, n) ==
    IF n = 0 THEN {<<>>}
    ELSE LET shorter == FoldLists(F, n - 1)
         IN  shorter \cup {Append(l, f) : l \in shorter, f \in F}

\* The position attribute of the drafting mesh before the call
AttributeOf(g) == [i \in DOMAIN g.basePositions |-> FroundVec(g.basePositions[i])]

InitCompose ==
    /\ geometryData \in {GenerateHanfuGeometry(g) : g \in GridParams}
    /\ partition = NoPartition
    /\ composed = NoComposition
    /\ IdleCloth
    /\ IdleUI

\* OrigamiSolver.applyFolds(basePositions, folds, targetAttribute)
\* (one call per behaviour: the function keeps no state between calls)
Compose(fs, sink) ==
    /\ ~composed.called
    /\ LET a == ApplyFolds(geometryData.basePositions, fs, AttributeOf(geometryData), sink)
       IN  composed' = [called |-> TRUE, folds |-> fs, sink |-> sink,
                        basePositions |-> a.basePositions, target |-> a.target]
    /\ UNCHANGED <<geometryData, partition, clothVars, uiVars>>

NextCompose ==
    \E fs \in FoldLists(FoldCandidates(geometryData), MaxFoldList), sink \in {"attribute", "mockAttr"} :
        Compose(fs, sink)

SpecCompose == InitCompose /\ [][NextCompose]_vars

-----------------------------------------------------------------------------
(* The drafting table: App's folds and interactionMode, DraftingScene's     *)
(* startPoint and its mesh, driven by pointer events and the buttons.       *)

\* The longest fold list and the last reading of Date.now() explored
MaxFolds == 3
MaxClock == 4

\* slice(1): the list without its first element
SliceFromOne(s, start, end) == IF s = <<>> THEN s ELSE Tail(s)

\* Array.prototype.slice(start, end): negative arguments count from the end,
\* both are clamped to the array
Slice(s, start, end) ==
    LET len == Len(s)
        k == IF start < 0 THEN (IF len + start > 0 THEN len + start ELSE 0)
             ELSE (IF start < len THEN start ELSE len)
        final == IF end < 0 THEN (IF len + end > 0 THEN len + end ELSE 0)
                 ELSE (IF end < len THEN end ELSE len)
    IN  [i \in 1..(IF final > k THEN final - k ELSE 0) |-> s[k + i]]

\* THREE.Vector3.normalize(): divideScalar(length() || 1)
Normalize(v) ==
    LET len == Sqrt(X(v) * X(v) + Y(v) * Y(v) + Z(v) * Z(v))
    IN  IF len = 0 THEN v
        ELSE Vec(RDiv(X(v) * UNIT, len), RDiv(Y(v) * UNIT, len), RDiv(Z(v) * UNIT, len))

\* a.clone().add(b).multiplyScalar(0.5)
Midpoint(a, b) == Vec(RDiv(X(a) + X(b), 2), RDiv(Y(a) + Y(b), 2), RDiv(Z(a) + Z(b), 2))

\* The seed loop of DRAW_FOLD: the first vertex of greatest |d| from the line
RECURSIVE SeedFarthest(_, _, _, _, _, _)
SeedFarthest(basePositions, origin, axis, i, seedIdx, maxDist) ==
    IF i >= Count(basePositions) THEN seedIdx
    ELSE LET v == basePositions[i]
             d == (X(v) - X(origin)) * Y(axis) + (Y(v) - Y(origin)) * (0 - X(axis))
         IN  IF Abs(d) > maxDist
             THEN SeedFarthest(basePositions, origin, axis, i + 1, i, Abs(d))
             ELSE SeedFarthest(basePositions, origin, axis, i + 1, seedIdx, maxDist)

\* AppendFold with one Set object shared by every fold of the list
AppendFoldSharedSet(fs, now, origin, axis, indices) ==
    IF indices # {}
    THEN Append([k \in 1..Len(fs) |-> [fs[k] EXCEPT !.indices = indices]],
                MakeFold(now, origin, axis, indices, ANGLE_PI))
    ELSE fs

\* AppendFold without the test of indices.size
AppendFoldAlways(fs, now, origin, axis, indices) ==
    Append(fs, MakeFold(now, origin, axis, indices, ANGLE_PI))

\* if (indices.size > 0) setFolds([...folds, newFold])
AppendFold(fs, now, origin, axis, indices) ==
    IF indices # {} THEN Append(fs, MakeFold(now, origin, axis, indices, ANGLE_PI)) ELSE fs

\* GestureFolds with the DRAG_FOLD partition seeded at the vertex hit
GestureFoldsSeedAtEnd(hit, now) ==
    LET basePositions == geometryData.basePositions
        endBasePos == basePositions[hit]
        mid == Midpoint(startPoint.pos, endBasePos)
    IN  IF mode = "DRAW_FOLD"
        THEN LET axis == Normalize(Vec(X(endBasePos) - X(startPoint.pos),
                                       Y(endBasePos) - Y(startPoint.pos),
                                       Z(endBasePos) - Z(startPoint.pos)))
                 seedIdx == SeedFarthest(basePositions, mid, axis, 0, NULL, -1)
             IN  IF seedIdx # NULL
                 THEN AppendFold(folds, now, mid, axis,
                                 ComputeFoldIndices(basePositions, geometryData.neighbors,
                                                    mid, axis, seedIdx).indices)
                 ELSE folds
        ELSE IF mode = "DRAG_FOLD"
        THEN LET axis == Normalize(Vec(0 - (Y(endBasePos) - Y(startPoint.pos)),
                                       X(endBasePos) - X(startPoint.pos), 0))
             IN  AppendFold(folds, now, mid, axis,
                            ComputeFoldIndices(basePositions, geometryData.neighbors,
                                               mid, axis, hit).indices)
        ELSE folds

\* The fold list handlePointerUp sets for a gesture from startPoint to the vertex hit
GestureFolds(hit, now) ==
    LET basePositions == geometryData.basePositions
        endBasePos == basePositions[hit]
        mid == Midpoint(startPoint.pos, endBasePos)
    IN  IF mode = "DRAW_FOLD"
        THEN LET axis == Normalize(Vec(X(endBasePos) - X(startPoint.pos),
                                       Y(endBasePos) - Y(startPoint.pos),
                                       Z(endBasePos) - Z(startPoint.pos)))
                 seedIdx == SeedFarthest(basePositions, mid, axis, 0, NULL, -1)
             IN  IF seedIdx # NULL
                 THEN AppendFold(folds, now, mid, axis,
                                 ComputeFoldIndices(basePositions, geometryData.neighbors,
                                                    mid, axis, seedIdx).indices)
                 ELSE folds
        ELSE IF mode = "DRAG_FOLD"
        THEN LET axis == Normalize(Vec(0 - (Y(endBasePos) - Y(startPoint.pos)),
                                       X(endBasePos) - X(startPoint.pos), 0))
             IN  AppendFold(folds, now, mid, axis,
                            ComputeFoldIndices(basePositions, geometryData.neighbors,
                                               mid, axis, startPoint.vIdx).indices)
        ELSE folds

\* DraftingScene's effect on [folds, geometryData]: applyFolds into the mesh's
\* position attribute
FoldedMesh(fs) ==
    ApplyFolds(geometryData.basePositions, fs, AttributeOf(geometryData), "attribute").target

\* The sheet on the table: one cell, two triangles
SheetParams == [wSeg |-> 1, hSeg |-> 1, cell |-> UNIT, pattern |-> 0..3]

InitUI ==
    /\ geometryData = GenerateHanfuGeometry(SheetParams)
    /\ folds = <<>>
    /\ mode = "DRAG_FOLD"
    /\ startPoint = NoPoint
    /\ meshPositions = FoldedMesh(<<>>)
    /\ clock = 0
    /\ partition = NoPartition
    /\ composed = NoComposition
    /\ IdleCloth

\* handlePointerDown(e); hit is getIntersect(e).vIdx, NULL for no intersection
handlePointerDown(hit) ==
    /\ startPoint' = IF mode = "VIEW" \/ hit = NULL THEN startPoint
                     ELSE [vIdx |-> hit, pos |-> geometryData.basePositions[hit]]
    /\ UNCHANGED <<folds, mode, meshPositions, clock, solverVars, clothVars>>

\* handlePointerUp(e); now is the reading of Date.now() for the new fold's id,
\* clock the last reading taken (a gesture takes more than a millisecond, so
\* readings grow)
handlePointerUp(hit, now) ==
    /\ startPoint.vIdx # NULL
    /\ now > clock
    /\ now <= MaxClock
    /\ folds' = IF hit # NULL /\ hit # startPoint.vIdx THEN GestureFolds(hit, now) ELSE folds
    /\ Len(folds') <= MaxFolds
    /\ startPoint' = NoPoint
    /\ clock' = IF folds' # folds THEN now ELSE clock
    /\ meshPositions' = FoldedMesh(folds')
    /\ UNCHANGED <<mode, solverVars, clothVars>>

\* onClick={() => props.setFolds(props.folds.slice(0, -1))}
Undo ==
    /\ folds' = Slice(folds, 0, -1)
    /\ meshPositions' = FoldedMesh(folds')
    /\ UNCHANGED <<mode, startPoint, clock, solverVars, clothVars>>

\* onClick={() => props.setFolds([])}
Reset ==
    /\ folds' = <<>>
    /\ meshPositions' = FoldedMesh(folds')
    /\ UNCHANGED <<mode, startPoint, clock, solverVars, clothVars>>

\* onClick={() => props.setMode(m)}
SetMode(m) ==
    /\ mode' = m
    /\ UNCHANGED <<folds, startPoint, meshPositions, clock, solverVars, clothVars>>

\* What getIntersect(e) gives: no intersection, or the vertex nearest to the pointer
Hits == {NULL, 0, 1}

NextUI ==
    \/ \E hit \in Hits : handlePointerDown(hit)
    \/ \E hit \in Hits, now \in {clock + 1} : handlePointerUp(hit, now)
    \/ Undo
    \/ Reset
    \/ \E m \in {"VIEW", "DRAG_FOLD", "DRAW_FOLD"} : SetMode(m)

SpecUI == InitUI /\ [][NextUI]_vars

-----------------------------------------------------------------------------
(* update() followed through its two phases: the integration loop, then the  *)
(* relaxation iterations with their floor pass.  Here updates counts the     *)
(* phases that have run: it is odd between the two phases of one update().   *)
(* The interaction methods run between calls of update() only.               *)

MaxPhases == 3

PhasePinSets == ClothPinSets \cup {{0}}

InitPhases ==
    /\ \E geo \in ClothGeos, pinIndices \in PhasePinSets :
          LET c == NewClothPhysics(geo, pinIndices)
          IN  /\ positions = c.positions
              /\ prevPositions = c.prevPositions
              /\ originalPositions = c.originalPositions
              /\ pins = c.pins
              /\ constraints = c.constraints
              /\ interactionParticleIndex = c.interactionParticleIndex
              /\ interactionPosition = c.interactionPosition
    /\ updates = 0
    /\ IdleSolver
    /\ IdleUI

\* 1. Integration
IntegrationPhase(wind, gravity, now) ==
    /\ updates % 2 = 0
    /\ updates < MaxPhases
    /\ SetCloth(Integrate(Cloth, 0, wind, gravity, now))
    /\ updates' = updates + 1
    /\ UNCHANGED <<solverVars, uiVars>>

\* 2. Constraints Relaxation, with the floor pass of each iteration
RelaxationPhase ==
    /\ updates % 2 = 1
    /\ SetCloth(Relaxation(Cloth, 0))
    /\ updates' = updates + 1
    /\ UNCHANGED <<solverVars, uiVars>>

NextPhases ==
    \/ \E f \in Frames : IntegrationPhase(f.wind, f.gravity, f.now)
    \/ RelaxationPhase
    \/ \E index \in DOMAIN positions : updates % 2 = 0 /\ StartInteraction(index)
    \/ \E pos \in InteractionTargets : updates % 2 = 0 /\ UpdateInteraction(pos)
    \/ updates % 2 = 0 /\ EndInteraction

SpecPhases == InitPhases /\ [][NextPhases]_vars

-----------------------------------------------------------------------------
(* The drafting table with the measurement sliders: App keeps params and    *)
(* folds side by side, Controls sets params, DraftingTable regenerates the  *)
(* geometry from params, and DraftingScene's effect applies the fold list   *)
(* it still holds to the new geometry.                                      *)

\* The measurements on offer: a 2 x 2 grid whose pattern leaves the first
\* corner out, at two sizes
DraftParams ==
    {[wSeg |-> 2, hSeg |-> 2, cell |-> UNIT, pattern |-> 1..8],
     [wSeg |-> 2, hSeg |-> 2, cell |-> UNIT \div 2, pattern |-> 1..8]}

\* What getIntersect(e) gives on that grid: no intersection, the corner
\* opposite to the one left out, or the centre
DraftHits == {NULL, 2, 4}

\* Pointer-ups are followed until this many folds have been made (clock,
\* the last id given, counts them)
MaxDraftFolds == 1

InitDraft ==
    /\ geometryData = GenerateHanfuGeometry([wSeg |-> 2, hSeg |-> 2, cell |-> UNIT, pattern |-> 1..8])
    /\ folds = <<>>
    /\ mode = "DRAG_FOLD"
    /\ startPoint = NoPoint
    /\ meshPositions = FoldedMesh(<<>>)
    /\ clock = 0
    /\ partition = NoPartition
    /\ composed = NoComposition
    /\ IdleCloth

\* Controls.handleChange: setParams({ ...params, [key]: val }); the memoised
\* geometryData is regenerated and the effect on [folds, geometryData] runs
SetParams(p) ==
    /\ geometryData' = GenerateHanfuGeometry(p)
    /\ meshPositions' = ApplyFolds(geometryData'.basePositions, folds,
                                   AttributeOf(geometryData'), "attribute").target
    /\ UNCHANGED <<folds, mode, startPoint, clock, partition, composed, clothVars>>

NextDraft ==
    \/ \E hit \in DraftHits : handlePointerDown(hit)
    \/ \E hit \in DraftHits, now \in {clock + 1} :
          clock < MaxDraftFolds /\ handlePointerUp(hit, now)
    \/ Undo
    \/ Reset
    \/ \E m \in {"VIEW", "DRAG_FOLD", "DRAW_FOLD"} : SetMode(m)
    \/ \E p \in DraftParams : SetParams(p)

SpecDraft == InitDraft /\ [][NextDraft]_vars

-----------------------------------------------------------------------------
(* update() followed from its first floor loop on, one loop per step: the    *)
(* floor loop, then the constraint loop of the next iteration.  Here updates *)
(* counts the loops that have run: it is odd right after a floor loop.       *)

MaxLoops == 3

\* The solver at the entry of the first floor loop of its first update():
\* constructed, with or without an override, integrated and relaxed once
InitFloor ==
    /\ \E geo \in ClothGeos, pinIndices \in PhasePinSets, f \in Frames,
          index \in {NULL, 1}, pos \in InteractionTargets :
          LET c == NewClothPhysics(geo, pinIndices)
              o == IF index = NULL THEN c
                   ELSE [c EXCEPT !.interactionParticleIndex = index,
                                  !.interactionPosition = pos]
              r == RelaxAll(Integrate(o, 0, f.wind, f.gravity, f.now), 1)
          IN  /\ positions = r.positions
              /\ prevPositions = r.prevPositions
              /\ originalPositions = r.originalPositions
              /\ pins = r.pins
              /\ constraints = r.constraints
              /\ interactionParticleIndex = r.interactionParticleIndex
              /\ interactionPosition = r.interactionPosition
    /\ updates = 0
    /\ IdleSolver
    /\ IdleUI

\* Floor constraint at Y=0: the loop over every vertex
FloorLoop ==
    /\ updates % 2 = 0
    /\ updates < MaxLoops
    /\ SetCloth(FloorPass(Cloth, 0))
    /\ updates' = updates + 1
    /\ UNCHANGED <<solverVars, uiVars>>

\* The constraint loop of the next relaxation iteration
ConstraintLoop ==
    /\ updates % 2 = 1
    /\ updates < MaxLoops
    /\ SetCloth(RelaxAll(Cloth, 1))
    /\ updates' = updates + 1
    /\ UNCHANGED <<solverVars, uiVars>>

NextFloor == FloorLoop \/ ConstraintLoop

SpecFloor == InitFloor /\ [][NextFloor]_vars

-----------------------------------------------------------------------------
(* HanfuModel on the simulation stage: the props params and folds, the       *)
(* memoised geometryData, the effect that builds the rest pose and a new     *)
(* ClothPhysics into physicsRef, and the frame loop.  In composed the effect *)
(* keeps its applyFolds call and the solver it took out of physicsRef.       *)

\* The most renders with changed props explored
MaxRenders == 2

\* Drafting parameters: a sheet wholly inside the pin square, and one wholly outside
StageParams ==
    {[wSeg |-> 1, hSeg |-> 1, cell |-> UNIT, pattern |-> 0..3],
     [wSeg |-> 1, hSeg |-> 1, cell |-> 4 * UNIT, pattern |-> 0..3]}

\* The fold lists the prop folds takes on the geometry g
StageFolds(g) == {<<>>, <<FoldAcrossMiddle(g)>>}

\* What the frame loop passes to update()
StageFrames == {f \in Frames : f.now # 0}

\* The vertices startInteraction is called with
StageGrabs == {3}

\* currentPos: tempPositions after applyFolds, mapped (x, z + 0.1, -y) into a Float32Array
CurrentPos(tempPositions) ==
    [i \in DOMAIN tempPositions |->
        FroundVec(Vec(X(tempPositions[i]), Z(tempPositions[i]) + UNIT \div 10,
                      0 - Y(tempPositions[i])))]

\* tempPositions after OrigamiSolver.applyFolds(tempPositions, folds, mockAttr)
TempPositions(g, fs) == ApplyFolds(g.basePositions, fs, <<>>, "mockAttr").basePositions

\* The state before the first effect: physicsRef.current is null
Unmounted == [NoComposition EXCEPT !.sink = "mockAttr"] @@ [renders |-> 1, replaced |-> <<>>]

InitStage ==
    /\ \E p \in StageParams :
          /\ geometryData = GenerateHanfuGeometry(p)
          /\ folds \in StageFolds(geometryData)
    /\ composed = Unmounted
    /\ partition = NoPartition
    /\ IdleCloth
    /\ mode = "DRAG_FOLD"
    /\ startPoint = NoPoint
    /\ meshPositions = <<>>
    /\ clock = 0

\* A render of HanfuModel with a changed params or folds prop: useMemo gives
\* the new geometryData and the effect is scheduled
Render(p, fs) ==
    /\ composed.called
    /\ composed.renders < MaxRenders
    /\ <<GenerateHanfuGeometry(p), fs>> # <<geometryData, folds>>
    /\ geometryData' = GenerateHanfuGeometry(p)
    /\ folds' = fs
    /\ composed' = [composed EXCEPT !.called = FALSE, !.renders = @ + 1]
    /\ UNCHANGED <<partition, clothVars, mode, startPoint, meshPositions, clock>>

\* The effect keeping the previous solver's interaction override
EffectKeepOverride ==
    /\ ~composed.called
    /\ LET tempPositions == TempPositions(geometryData, folds)
           geo == [position |-> CurrentPos(tempPositions), index |-> geometryData.index]
           c == NewClothPhysics(geo, geometryData.pins)
       IN  /\ SetCloth([c EXCEPT !.interactionParticleIndex = interactionParticleIndex,
                                 !.interactionPosition = interactionPosition])
           /\ composed' = [composed EXCEPT !.called = TRUE, !.folds = folds,
                                           !.basePositions = tempPositions,
                                           !.replaced = Cloth]
    /\ UNCHANGED <<geometryData, partition, updates, uiVars>>

\* useEffect(() => { ... physicsRef.current = new ClothPhysics(geo, geometryData.pins) },
\*           [geometryData, folds, params.bodyLength])
Effect ==
    /\ ~composed.called
    /\ LET tempPositions == TempPositions(geometryData, folds)
           geo == [position |-> CurrentPos(tempPositions), index |-> geometryData.index]
       IN  /\ SetCloth(NewClothPhysics(geo, geometryData.pins))
           /\ composed' = [composed EXCEPT !.called = TRUE, !.folds = folds,
                                           !.basePositions = tempPositions,
                                           !.replaced = Cloth]
    /\ UNCHANGED <<geometryData, partition, updates, uiVars>>

\* useFrame: if (!physicsRef.current || ... || simState.isPaused) return; update(windVec, gravity)
Frame(f) ==
    /\ positions # <<>>
    /\ Update(f.wind, f.gravity, f.now)

NextStage ==
    \/ \E p \in StageParams : \E fs \in StageFolds(GenerateHanfuGeometry(p)) : Render(p, fs)
    \/ Effect
    \/ \E f \in StageFrames : Frame(f)
    \/ \E index \in StageGrabs \cap DOMAIN positions : StartInteraction(index)
    \/ \E pos \in InteractionTargets : positions # <<>> /\ UpdateInteraction(pos)
    \/ positions # <<>> /\ EndInteraction

SpecStage == InitStage /\ [][NextStage]_vars

-----------------------------------------------------------------------------
(* Claims about the cloth solver (checked under SpecCloth) *)

\* C1: every pinned vertex keeps, after every update(), the position it had
\* when the solver was constructed, on all three coordinates.
C1_PinsKeepConstructionPosition ==
    \A p \in pins : positions[p] = originalPositions[p]

\* C2: while an override is active on a vertex v, positions[v] after every
\* update() equals the last-set interactionPosition on all three coordinates.
C2_OverrideHoldsTarget ==
    [][(updates' = updates + 1 /\ interactionParticleIndex # NULL)
        => positions'[interactionParticleIndex] = interactionPosition]_vars

\* C3: after any call to update(), no vertex (free, pinned or overridden) has
\* a vertical coordinate below the floor level.
C3_NoVertexBelowFloor ==
    updates > 0 => \A v \in DOMAIN positions : Y(positions[v]) >= FLOOR_Y

\* C3's case: an update() has run on a solver with a pinned vertex constructed
\* below the floor, and with an override whose target is below the floor.
C3_Witness ==
    /\ updates > 0
    /\ \E p \in pins : Y(originalPositions[p]) < FLOOR_Y /\ Y(positions[p]) = FLOOR_Y
    /\ interactionParticleIndex # NULL
    /\ interactionParticleIndex \notin pins
    /\ Y(interactionPosition) < FLOOR_Y
    /\ Y(positions[interactionParticleIndex]) = FLOOR_Y

-----------------------------------------------------------------------------
(* Claims about computeFoldIndices (checked under SpecPartition) *)

\* The side of vertex v for the cut line of the recorded call
SideOf(v) == GetSide(geometryData.basePositions, partition.origin, partition.axis, v)

\* The entries of v's adjacency list that are vertices
NeighborsOf(v) ==
    IF v \in DOMAIN geometryData.neighbors
    THEN {geometryData.neighbors[v][k] : k \in 1..Len(geometryData.neighbors[v])}
             \cap DOMAIN geometryData.basePositions
    ELSE {}

\* The vertices reachable from the set R along adjacency entries through
\* vertices of side s only
RECURSIVE SameSideReachable(_, _)
SameSideReachable(R, s) ==
    LET more == R \cup {n \in UNION {NeighborsOf(u) : u \in R} : SideOf(n) = s}
    IN  IF more = R THEN R ELSE SameSideReachable(more, s)

Returned == partition.called /\ ~partition.threw

\* C4: for a seed of side s (+1 or -1), every vertex of the returned set has
\* side s; the set holds no vertex of side 0 and none of side -s.
C4_ReturnedSetOnSeedSide ==
    Returned =>
        \A v \in partition.indices :
            SideOf(v) = SideOf(partition.seedIdx) /\ SideOf(v) # 0

\* C4's case: a seed off the line whose region borders vertices on the line and
\* vertices of the other side.
C4_Witness ==
    /\ Returned
    /\ Cardinality(partition.indices) >= 2
    /\ \E u \in partition.indices : \E n \in NeighborsOf(u) : SideOf(n) = 0
    /\ \E u \in partition.indices : \E n \in NeighborsOf(u) : SideOf(n) = 0 - SideOf(partition.seedIdx)

\* C5: for a seed off the line the returned set is exactly the set of vertices
\* reachable from the seed along adjacency paths whose vertices all have the
\* seed's side.
C5_ReturnedSetIsSameSideRegion ==
    (Returned /\ SideOf(partition.seedIdx) # 0) =>
        partition.indices = SameSideReachable({partition.seedIdx}, SideOf(partition.seedIdx))

\* C5's case: the region has vertices beyond the seed's own neighbours, touches
\* the line, and leaves out a same-side vertex that no same-side path reaches.
C5_Witness ==
    /\ Returned
    /\ SideOf(partition.seedIdx) # 0
    /\ \E w \in partition.indices : w # partition.seedIdx /\ w \notin NeighborsOf(partition.seedIdx)
    /\ \E u \in partition.indices : \E n \in NeighborsOf(u) : SideOf(n) = 0
    /\ \E w \in DOMAIN geometryData.basePositions :
           SideOf(w) = SideOf(partition.seedIdx) /\ w \notin partition.indices

\* C6: for a seed on the cut line (side 0, dead-zone included) the call returns
\* the empty set and raises no error, whatever the adjacency.
C6_SeedOnLineGivesEmptySet ==
    (partition.called /\ partition.seedIdx \in DOMAIN geometryData.basePositions
        /\ SideOf(partition.seedIdx) = 0)
    => (partition.indices = {} /\ ~partition.threw)

\* C6's case: a seed one grid step off the line (inside the dead-zone) that has
\* adjacency entries.
C6_Witness ==
    /\ partition.called
    /\ partition.origin = Vec(0, 1, 0)
    /\ partition.axis = Vec(UNIT, 0, 0)
    /\ partition.seedIdx \in DOMAIN geometryData.basePositions
    /\ Y(geometryData.basePositions[partition.seedIdx]) = 0
    /\ NeighborsOf(partition.seedIdx) # {}
    /\ partition.indices = {}

-----------------------------------------------------------------------------
(* Claims about applyFolds (checked under SpecCompose) *)

\* What the call wrote for vertex i: the attribute's element, or for mockAttr
\* the element of tempPositions
Written(i) ==
    IF composed.sink = "mockAttr" THEN composed.basePositions[i] ELSE composed.target[i]

\* The folds of a list whose member set holds vertex i, in list order
FoldsHolding(fs, i) == SelectSeq(fs, LAMBDA f : i \in f.indices)

\* A point taken through every fold of a list, first to last
RECURSIVE Through(_, _)
Through(point, fs) ==
    IF fs = <<>> THEN point ELSE Through(FoldPoint(point, Head(fs)), Tail(fs))

\* C7: fold order is significant: the folds F1 (about y = 0) and F2 (about
\* y = -cell/2) have overlapping member sets, and applying [F1, F2] and [F2, F1]
\* to the same base gives some vertex of both member sets different positions.
C7_FoldOrderSignificant ==
    LET F1 == FoldAcrossMiddle(geometryData)
        F2 == FoldBelowMiddle(geometryData)
        swapped == ApplyFolds(geometryData.basePositions, <<F2, F1>>,
                              AttributeOf(geometryData), "attribute").target
    IN  (composed.called /\ composed.sink = "attribute" /\ composed.folds = <<F1, F2>>)
        => \E i \in F1.indices \cap F2.indices : composed.target[i] # swapped[i]

\* C7's case: applyFolds has been called with [F1, F2], whose member sets overlap.
C7_Witness ==
    /\ composed.called
    /\ composed.sink = "attribute"
    /\ composed.folds = <<FoldAcrossMiddle(geometryData), FoldBelowMiddle(geometryData)>>
    /\ FoldAcrossMiddle(geometryData).indices \cap FoldBelowMiddle(geometryData).indices # {}

\* C8: the position written for vertex i is basePositions[i] taken, in list
\* order, through exactly the folds whose member set holds i, each acting on
\* the result of the one before; a vertex in no member set gets its base position.
C8_WrittenIsComposition ==
    composed.called =>
        \A i \in DOMAIN geometryData.basePositions :
            LET expected == Through(geometryData.basePositions[i], FoldsHolding(composed.folds, i))
            IN  /\ Written(i) = IF composed.sink = "mockAttr" THEN expected ELSE FroundVec(expected)
                /\ FoldsHolding(composed.folds, i) = <<>> => Written(i) = geometryData.basePositions[i]

\* C8's case: a call with two different folds where one vertex is in both
\* member sets, one in exactly one and one in none.
C8_Witness ==
    /\ composed.called
    /\ Len(composed.folds) = 2
    /\ composed.folds[1] # composed.folds[2]
    /\ \E i, j, k \in DOMAIN geometryData.basePositions :
           /\ Len(FoldsHolding(composed.folds, i)) = 2
           /\ Len(FoldsHolding(composed.folds, j)) = 1
           /\ Len(FoldsHolding(composed.folds, k)) = 0
           /\ Written(i) # geometryData.basePositions[i]

\* C9: applyFolds leaves every element of its basePositions argument unchanged
\* at every call site (only the target buffer is written).
C9_BasePositionsUnchanged ==
    composed.called => composed.basePositions = geometryData.basePositions

-----------------------------------------------------------------------------
(* Claims about the fold list (checked under SpecUI) *)

\* A list without its last element
Front(s) == SubSeq(s, 1, Len(s) - 1)

\* C10: the fold list behaves as a stack: a gesture (the step that clears
\* startPoint) leaves the list alone or appends one fold at its end, a pointer
\* down and a change of mode leave it alone, undo removes exactly the last fold and keeps
\* the others in order, undo on the empty list leaves it empty, reset gives the
\* empty list, and no step removes or reorders a fold that is not the last one.
C10_FoldListIsStack ==
    [][/\ \/ folds' = folds
          \/ folds' = <<>>
          \/ folds # <<>> /\ folds' = Front(folds)
          \/ folds' # <<>> /\ Front(folds') = folds
       /\ Undo => folds' = IF folds = <<>> THEN <<>> ELSE Front(folds)
       /\ Reset => folds' = <<>>
       /\ (startPoint.vIdx # NULL /\ startPoint'.vIdx = NULL)
          => (folds' = folds \/ (folds' # <<>> /\ Front(folds') = folds))
       /\ (startPoint' # startPoint /\ startPoint'.vIdx # NULL) => folds' = folds
       /\ mode' # mode => folds' = folds]_vars

\* C10's case: three folds were appended at three different times and the
\* third was undone: the first two are still there, in the order of their
\* appends.
C10_Witness ==
    /\ Len(folds) = 2
    /\ folds[1].id < folds[2].id
    /\ folds[2].id < clock
    /\ folds[1].indices # folds[2].indices

\* The member sets computeFoldIndices gives for the line of fold f on the
\* positions pos, seeded at any member of f
MembersFrom(pos, f) ==
    {ComputeFoldIndices(pos, geometryData.neighbors, f.origin, f.axis, seed).indices :
        seed \in f.indices}

\* C11: a fold enters the list with the member set computeFoldIndices gives on
\* the undeformed base positions, and a fold that stays in the list (same id)
\* keeps its member set over every step: appends, undos, resets and the
\* applyFolds call that follows each change of the list.
C11_MemberSetsFromBaseAndStable ==
    [][/\ Len(folds') > Len(folds) =>
             MembersFrom(geometryData.basePositions, folds'[Len(folds')])
                 = {folds'[Len(folds')].indices}
       /\ \A k \in 1..Len(folds), j \in 1..Len(folds') :
             folds[k].id = folds'[j].id => folds'[j].indices = folds[k].indices]_vars

\* C11's case: the second fold was made while the mesh showed the first fold,
\* where the folded positions would have given another member set; a later
\* fold has since been appended and undone.
C11_Witness ==
    /\ Len(folds) = 2
    /\ folds[2].id < clock
    /\ MembersFrom(FoldedMesh(<<folds[1]>>), folds[2]) # {folds[2].indices}
    /\ MembersFrom(geometryData.basePositions, folds[2]) = {folds[2].indices}

-----------------------------------------------------------------------------
(* Further claims about the cloth solver (checked under SpecCloth) *)

\* C12: at most one vertex is overridden: startInteraction(j) makes j the
\* override vertex with j's own current position as target, endInteraction
\* leaves no override vertex, and an update() treats exactly the current
\* override vertex as overridden: its previous height becomes the target's,
\* while every other free vertex, a former override vertex included, is
\* integrated (its previous height becomes the height it had before the call).
C12_SingleOverride ==
    [][/\ \A j \in DOMAIN positions :
             StartInteraction(j) =>
                 interactionParticleIndex' = j /\ interactionPosition' = positions[j]
       /\ EndInteraction => interactionParticleIndex' = NULL
       /\ updates' = updates + 1 =>
             \A v \in DOMAIN positions \ pins :
                 Y(prevPositions'[v]) = IF v = interactionParticleIndex
                                        THEN Fround(Y(interactionPosition))
                                        ELSE Y(positions[v])]_vars

\* C12's case: vertex i was dragged away by an earlier override, then
\* startInteraction(j) took its own position as target and an update() has
\* integrated i as a normal vertex.
C12_Witness ==
    /\ updates >= 2
    /\ interactionParticleIndex # NULL
    /\ interactionParticleIndex \notin pins
    /\ interactionPosition \notin InteractionTargets
    /\ \E i \in DOMAIN positions \ (pins \cup {interactionParticleIndex}) :
           /\ DistanceTo(positions[i], originalPositions[i]) > UNIT \div 4
           /\ Y(prevPositions[i]) >= FLOOR_Y

-----------------------------------------------------------------------------
(* Claims about the solver on a faulty index buffer (checked under SpecClothFault) *)

\* C13: with a constraint that names a vertex outside the position buffer,
\* update() fails before it modifies any position or previous position: it
\* never completes, and no in-range vertex ever holds a value derived from the
\* out-of-range read (NaN).
C13_FailsBeforeWriting ==
    /\ updates = 0
    /\ \A v \in DOMAIN positions : ~IsNaN(positions[v]) /\ ~IsNaN(prevPositions[v])

-----------------------------------------------------------------------------
(* Claims about the relaxation of one constraint (checked under SpecRelax) *)

\* The two endpoints of the constraint are free: not pinned, not overridden
BothFree ==
    /\ pins = {}
    /\ interactionParticleIndex = NULL

\* |currDist - rest| of the constraint
RestError == Abs(DistanceTo(positions[0], positions[1]) - constraints[1][3])

\* C14: a constraint whose endpoints coincide when it is relaxed is skipped:
\* no position and no previous position changes and no value is NaN (nothing
\* was divided by zero), whatever the rest length.
C14_CoincidingEndpointsSkipped ==
    [][(updates' = updates + 1 /\ positions[0] = positions[1])
       => /\ positions' = positions
          /\ prevPositions' = prevPositions
          /\ \A v \in DOMAIN positions : ~IsNaN(positions'[v])]_vars

\* C14's case: two free vertices constructed on the same point, tied by a
\* constraint of non-zero rest length, after a relaxation.
C14_Witness ==
    /\ updates > 0
    /\ BothFree
    /\ originalPositions[0] = originalPositions[1]
    /\ positions = originalPositions
    /\ constraints[1][3] > 0

\* C17: with both endpoints free and nothing else acting, a relaxation of the
\* constraint never increases |currDist - rest| (so an error of 0 stays 0).
C17_ErrorNeverGrows ==
    [][(updates' = updates + 1 /\ BothFree) => RestError' <= RestError]_vars

\* C17's case: two free vertices that started off their rest length have been
\* relaxed at least twice and are at it.
C17_Witness ==
    /\ updates >= 2
    /\ BothFree
    /\ DistanceTo(originalPositions[0], originalPositions[1]) # constraints[1][3]
    /\ positions # originalPositions
    /\ RestError = 0

-----------------------------------------------------------------------------
(* Further claims about computeFoldIndices (checked under SpecPartition) *)

\* C15: computeFoldIndices called with a seed index that is no index of
\* basePositions fails with an error: it returns no set, empty or otherwise.
C15_SeedOutOfRangeThrows ==
    (partition.called /\ partition.seedIdx \notin DOMAIN geometryData.basePositions)
        => partition.threw

\* C15's case: a call on a non-empty mesh, with neighbours for every vertex,
\* whose seed is one past the last vertex.
C15_Witness ==
    /\ partition.called
    /\ partition.seedIdx = Count(geometryData.basePositions)
    /\ Count(geometryData.basePositions) > 0
    /\ \A v \in DOMAIN geometryData.basePositions : v \in DOMAIN geometryData.neighbors
    /\ partition.threw

-----------------------------------------------------------------------------
(* Claims about the loop of computeFoldIndices (checked under SpecLoop) *)

\* C16: on every adjacency structure whose entries are vertices (cycles,
\* self-loops, repeated entries, one-way entries and missing lists included)
\* and for every origin and axis, computeFoldIndices returns, and no vertex is
\* pushed on the queue more than once.
C16_LoopEndsEachVertexPushedOnce ==
    /\ [](\A j, k \in 1..Len(partition.pushed) :
              partition.pushed[j] = partition.pushed[k] => j = k)
    /\ [](~partition.threw)
    /\ <>(partition.returned)

\* C16's case: the call has returned after walking the whole cycle, past a
\* self-loop, a repeated entry and a vertex without a list.
C16_Witness ==
    /\ geometryData = CycleGeometry
    /\ partition.returned
    /\ Len(partition.pushed) = Count(geometryData.basePositions)
    /\ partition.indices = DOMAIN geometryData.basePositions

-----------------------------------------------------------------------------
(* Claims about HanfuModel's solver (checked under SpecStage) *)

\* The folded rest pose of the current props: every base position taken through
\* the folds holding it, mapped to world axes and stored as Float32
RestPose ==
    [i \in DOMAIN geometryData.basePositions |->
        LET v == Through(geometryData.basePositions[i], FoldsHolding(folds, i))
        IN  FroundVec(Vec(X(v), Z(v) + UNIT \div 10, 0 - Y(v)))]

\* C18: when params or folds have changed, the effect replaces the solver:
\* the new one has positions at the folded rest pose, prevPositions equal to
\* positions, rest lengths measured in that pose, the new pins and no
\* override, none of it taken from the solver before; update() afterwards
\* works on the new solver and leaves the replaced one as it was.
C18_SolverFullyReplaced ==
    [][/\ (~composed.called /\ composed'.called) =>
             /\ positions' = RestPose
             /\ prevPositions' = positions'
             /\ Len(constraints') = Len(geometryData.index)
             /\ \A k \in 1..Len(constraints') :
                    constraints'[k][3] =
                        DistanceTo(positions'[constraints'[k][1]], positions'[constraints'[k][2]])
             /\ pins' = geometryData.pins
             /\ interactionParticleIndex' = NULL
             /\ composed'.replaced = Cloth
       /\ composed.called =>
             /\ composed'.replaced = composed.replaced
             /\ originalPositions = RestPose
             /\ pins = geometryData.pins
             /\ DOMAIN positions = DOMAIN geometryData.basePositions
       /\ updates' = updates + 1 =>
             /\ originalPositions' = originalPositions
             /\ constraints' = constraints]_vars

\* C18's case: a solver that had moved, had velocity and an active override
\* was replaced after a change of the fold list, and a frame has run on the
\* new solver.
C18_Witness ==
    /\ composed.called
    /\ composed.replaced # <<>>
    /\ composed.replaced.interactionParticleIndex # NULL
    /\ composed.replaced.positions # composed.replaced.originalPositions
    /\ composed.replaced.prevPositions # composed.replaced.positions
    /\ composed.replaced.originalPositions # originalPositions
    /\ folds # <<>>
    /\ interactionParticleIndex = NULL
    /\ positions # originalPositions

\* The solver c after its constraints 1..n were relaxed once each, in list order
RECURSIVE RelaxedThrough(_, _)
RelaxedThrough(c, n) ==
    IF n = 0 THEN c ELSE RelaxConstraint(RelaxedThrough(c, n - 1), c.constraints[n])

\* k rounds, each relaxing every entry of the list and then clamping to the floor
RECURSIVE Rounds(_, _)
Rounds(c, k) ==
    IF k = 0 THEN c
    ELSE FloorPass(RelaxedThrough(Rounds(c, k - 1), Len(c.constraints)), 0)

\* The entries of the constraint list that repeat an earlier entry's edge
Copies == {k \in 1..Len(constraints) :
              \E j \in 1..(k - 1) : {constraints[j][1], constraints[j][2]}
                                    = {constraints[k][1], constraints[k][2]}}

\* C19: the constraint list holds, per triangle (a, b, c) of the index buffer
\* and in triangle order, the three constraints a-b, b-c, c-a, each with the
\* distance of its endpoints at construction as rest length; an edge of two
\* triangles is in the list once per triangle, and update() relaxes every
\* entry of the list in each of its iterations.
C19_ThreeConstraintsPerTriangle ==
    [][/\ composed.called =>
             /\ Len(constraints) = Len(geometryData.index)
             /\ \A t \in 0..(Len(geometryData.index) \div 3 - 1) :
                    LET a == geometryData.index[3 * t + 1]
                        b == geometryData.index[3 * t + 2]
                        c == geometryData.index[3 * t + 3]
                        Rest(p, q) == DistanceTo(originalPositions[p], originalPositions[q])
                    IN  /\ constraints[3 * t + 1] = <<a, b, Rest(a, b)>>
                        /\ constraints[3 * t + 2] = <<b, c, Rest(b, c)>>
                        /\ constraints[3 * t + 3] = <<c, a, Rest(c, a)>>
       /\ updates' = updates + 1 =>
             \E f \in StageFrames :
                 positions' = Rounds(Integrate(Cloth, 0, f.wind, f.gravity, f.now),
                                     RELAX_ITERATIONS).positions]_vars

\* C19's case: a solver built on two triangles with a common edge, whose list
\* holds that edge twice, after an update() that moved it.
C19_Witness ==
    /\ composed.called
    /\ Len(geometryData.index) = 6
    /\ Copies # {}
    /\ updates >= 1
    /\ positions # originalPositions

-----------------------------------------------------------------------------
(* Claims about the integration phase of update() (checked under SpecPhases) *)

\* What the integration phase computes for a vertex at cur with previous
\* position old: cur + DRAG * (cur - old) + force * TIMESTEP^2, in double precision
Verlet(cur, old, f) ==
    LET windFactor == WindFactor(f.now, Y(cur))
    IN  Vec(X(cur) + Velocity(X(cur), X(old)) + ForceStep(RDiv(X(f.wind) * windFactor, 1000)),
            Y(cur) + Velocity(Y(cur), Y(old)) + ForceStep(f.gravity),
            Z(cur) + Velocity(Z(cur), Z(old)) + ForceStep(RDiv(Z(f.wind) * windFactor, 1000)))

\* The step just taken is an integration phase
Integrated == updates % 2 = 0 /\ updates' = updates + 1

-----------------------------------------------------------------------------
(* Claims about the order of update()'s passes (checked under SpecStage) *)

\* One relaxation iteration: every constraint once, in list order, then the
\* floor loop over every vertex
Iteration(c) == FloorPass(RelaxAll(c, 1), 0)

\* The solver as constructed, with the override as it is now
Constructed ==
    [Cloth EXCEPT !.positions = originalPositions, !.prevPositions = originalPositions]

\* C21: update() is one integration pass over all vertices, then exactly 3
\* relaxation iterations, each relaxing every constraint once in list order
\* and followed at once by a floor pass over every vertex; the floor pass is
\* the last step, so no vertex is below the floor when update() returns.
C21_PassOrder ==
    [][updates' = updates + 1 =>
          /\ \E f \in Frames :
                LET c == Iteration(Iteration(Iteration(
                             Integrate(Cloth, 0, f.wind, f.gravity, f.now))))
                IN  positions' = c.positions /\ prevPositions' = c.prevPositions
          /\ \A v \in DOMAIN positions' : Y(positions'[v]) >= FLOOR_Y]_vars

\* C21's case: the first update() of a solver has run, and its result is not
\* what three relaxation passes followed by a single floor pass give.
C21_Witness ==
    /\ updates = 1
    /\ \E f \in Frames :
          /\ positions = UpdateCloth(Constructed, f.wind, f.gravity, f.now).positions
          /\ prevPositions = UpdateCloth(Constructed, f.wind, f.gravity, f.now).prevPositions
          /\ <<positions, prevPositions>> #
                 <<RelaxationFloorLast(Integrate(Constructed, 0, f.wind, f.gravity, f.now), 0).positions,
                   RelaxationFloorLast(Integrate(Constructed, 0, f.wind, f.gravity, f.now), 0).prevPositions>>

-----------------------------------------------------------------------------
(* Claims about what one relaxation writes (checked under SpecRelax) *)

\* Endpoint p of the constraint is free: not pinned and not the override vertex
Free(p) == p \notin pins /\ interactionParticleIndex # p

\* The distance of the endpoints and the rest length of the constraint
CurrDist == DistanceTo(positions[0], positions[1])
Rest == constraints[1][3]

\* 0.5 * diff * d  for the component d of the vector from endpoint 0 to endpoint 1
HalfDiff(d) == RDiv(d * (CurrDist - Rest), 2 * CurrDist)

\* The vector from endpoint 0 to endpoint 1
Across == Vec(X(positions[1]) - X(positions[0]), Y(positions[1]) - Y(positions[0]),
              Z(positions[1]) - Z(positions[0]))

\* What the rounding of the translations, of the two stores and of the
\* measured lengths can add to a length: the stores and translations move a
\* coordinate by at most 1 + QUANT, and a length known to one grid unit in
\* CurrDist scales the result by at most 1 / CurrDist
Rounding ==
    2 * (1 + QUANT) + 2 + IF CurrDist = 0 THEN 0 ELSE (Rest + CurrDist) \div CurrDist

\* The writes of one relaxation: a free endpoint moves by 0.5 * diff * (vector
\* to the other endpoint), an endpoint that is not free is not written
WritesOfRelaxation ==
    /\ prevPositions' = prevPositions
    /\ positions'[0] = IF Free(0)
                       THEN FroundVec(Vec(X(positions[0]) + HalfDiff(X(Across)),
                                          Y(positions[0]) + HalfDiff(Y(Across)),
                                          Z(positions[0]) + HalfDiff(Z(Across))))
                       ELSE positions[0]
    /\ positions'[1] = IF Free(1)
                       THEN FroundVec(Vec(X(positions[1]) - HalfDiff(X(Across)),
                                          Y(positions[1]) - HalfDiff(Y(Across)),
                                          Z(positions[1]) - HalfDiff(Z(Across))))
                       ELSE positions[1]

\* The lengths after one relaxation, equalities read up to Rounding: both
\* endpoints free, the rest length; one free, half the error; none, no change
LengthsOfRelaxation ==
    /\ (Free(0) /\ Free(1)) => RestError' <= Rounding
    /\ (Free(0) # Free(1)) => Abs(2 * RestError' - RestError) <= 2 * Rounding
    /\ (~Free(0) /\ ~Free(1)) => positions' = positions

\* C22 as stated, for every constraint: one relaxation moves each free
\* endpoint by 0.5 * diff * (vector to the other endpoint) and writes no
\* endpoint that is pinned or overridden; with both endpoints free the
\* distance afterwards is the rest length, with one free the error is halved,
\* with none nothing changes.
C22_RelaxationAsStated ==
    [][updates' = updates + 1 =>
          /\ \A p \in {0, 1} : ~Free(p) => positions'[p] = positions[p]
          /\ LengthsOfRelaxation]_vars

\* C22, amended: as stated for a constraint whose endpoints do not coincide,
\* the lengths up to the rounding of the arithmetic and of the Float32 stores;
\* a constraint whose endpoints coincide is skipped and nothing is written.
C22_RelaxationUnlessCoinciding ==
    [][updates' = updates + 1 =>
          IF CurrDist = 0
          THEN positions' = positions /\ prevPositions' = prevPositions
          ELSE WritesOfRelaxation /\ LengthsOfRelaxation]_vars

\* C22's case: a constraint off its rest length with exactly one free endpoint
\* has been relaxed: the pinned endpoint is where it was constructed, the free
\* one has moved, and the error is half of what it was.
C22_Witness ==
    /\ updates = 1
    /\ pins = {0}
    /\ interactionParticleIndex = NULL
    /\ positions[0] = originalPositions[0]
    /\ positions[1] # originalPositions[1]
    /\ DistanceTo(originalPositions[0], originalPositions[1]) >= UNIT \div 2
    /\ RestError >= UNIT \div 4
    /\ Abs(2 * RestError
           - Abs(DistanceTo(originalPositions[0], originalPositions[1]) - Rest)) <= 2 * QUANT + 4

-----------------------------------------------------------------------------
(* Claims about the floor pass (checked under SpecFloor) *)

\* The step just taken is a floor loop
Floored == updates % 2 = 0 /\ updates' = updates + 1

\* current - 0.9 * (current - previous), as the store into prevPositions keeps it
Dragged(cv, ov) == Fround(cv - RDiv((cv - ov) * FRICTION_NUM, FRICTION_DEN))

\* C23: the floor pass leaves a vertex at or above the floor unchanged in both
\* buffers; for a vertex below the floor it sets the vertical position to the
\* floor level, assigns current - 0.9 * (current - previous) to previous x and
\* z, and changes neither the horizontal position nor previous y.
C23_FloorPass ==
    [][Floored =>
          \A i \in DOMAIN positions :
              IF Y(positions[i]) >= FLOOR_Y
              THEN positions'[i] = positions[i] /\ prevPositions'[i] = prevPositions[i]
              ELSE /\ positions'[i] = Vec(X(positions[i]), FLOOR_Y, Z(positions[i]))
                   /\ prevPositions'[i] =
                          Vec(Dragged(X(positions[i]), X(prevPositions[i])),
                              Y(prevPositions[i]),
                              Dragged(Z(positions[i]), Z(prevPositions[i])))]_vars

\* C23's case: a floor loop has just run; one vertex that was moving sideways
\* came from below the floor and lies on it with its previous y still below,
\* another one is above the floor and moving.
C23_Witness ==
    /\ updates % 2 = 1
    /\ \E i, j \in DOMAIN positions :
          /\ Y(positions[i]) = FLOOR_Y
          /\ Y(prevPositions[i]) < FLOOR_Y
          /\ X(prevPositions[i]) # X(positions[i])
          /\ Y(positions[j]) > FLOOR_Y
          /\ positions[j] # prevPositions[j]

-----------------------------------------------------------------------------
(* Claims about the depth offset (checked under SpecCompose) *)

\* The folds of the composed list that hold vertex i
Holding(i) == {k \in DOMAIN composed.folds : i \in composed.folds[k].indices}

\* C24: on a flat base mesh with folds at angle pi, a vertex that is a member
\* of at least one fold never ends, after applyFolds, at the depth (z) of a
\* vertex that is a member of no fold.
C24_FoldedLayersOffUnfolded ==
    (/\ composed.called
     /\ composed.sink = "attribute"
     /\ \A i \in DOMAIN geometryData.basePositions : Z(geometryData.basePositions[i]) = 0
     /\ \A k \in DOMAIN composed.folds : composed.folds[k].angle = ANGLE_PI)
    => \A i, j \in DOMAIN composed.target :
           Holding(i) # {} /\ Holding(j) = {} => Z(composed.target[i]) # Z(composed.target[j])

-----------------------------------------------------------------------------
(* Claims about the drafting table (checked under SpecDraft) *)

\* The strict side of fold f's cut line that vertex i lies on, on the current
\* base positions
SideNow(f, i) == GetSide(geometryData.basePositions, f.origin, f.axis, i)

\* C25: in every reachable state each fold of the list has a member set whose
\* vertices all lie on one and the same strict side of that fold's cut line,
\* sides being evaluated on the current base positions.
C25_MembersOnOneStrictSide ==
    \A k \in DOMAIN folds :
        \E side \in {-1, 1} : \A i \in folds[k].indices : SideNow(folds[k], i) = side

\* The step just taken appended a fold in the given mode
Appended(m) == mode = m /\ Len(folds') = Len(folds) + 1

\* C26: a fold appended by a DRAW_FOLD gesture has in its member set at least
\* one vertex with a non-empty adjacency list (its seed belongs to a triangle).
C26_DrawnFoldMovesMesh ==
    [][Appended("DRAW_FOLD") =>
          \E i \in folds'[Len(folds')].indices : geometryData.neighbors[i] # <<>>]_vars

\* Where applyFolds puts vertex i under the one fold f, on the current base positions
Folded(f, i) == FoldVertex(geometryData.basePositions[i], <<f>>, i, 1)

\* Fold f has the perpendicular bisector of a and b as its cut line: its
\* origin is their mid-point and its axis a unit vector perpendicular to
\* b - a, within what the normalisation loses to rounding
Bisects(f, a, b) ==
    /\ f.origin = Midpoint(a, b)
    /\ Z(f.axis) = 0
    /\ Abs(X(f.axis) * (X(b) - X(a)) + Y(f.axis) * (Y(b) - Y(a))) <= 4 * UNIT
    /\ Abs(X(f.axis) * X(f.axis) + Y(f.axis) * Y(f.axis) - UNIT * UNIT) <= 4 * UNIT

\* p and q have the same in-plane coordinates, within the rounding of the rotation
SameInPlane(p, q) == Abs(X(p) - X(q)) <= 4 /\ Abs(Y(p) - Y(q)) <= 4

Released == startPoint.vIdx # NULL /\ startPoint' = NoPoint

\* C29: every fold of the list has a non-empty member set, and a pointer-up
\* changes the list only by appending one fold, only in mode DRAW_FOLD or
\* DRAG_FOLD, only for a release on a vertex other than the recorded start
\* vertex (the new fold's origin is the mid-point of the recorded start and
\* that vertex) and only with a non-empty partition, whose seed is then off
\* the cut line; in VIEW mode, and in every case where one of these fails,
\* the list is unchanged.
C29_FoldsNonEmptyAndListChangesOnlyByGesture ==
    /\ [](\A k \in DOMAIN folds : folds[k].indices # {})
    /\ [][Released /\ folds' # folds
             => /\ mode \in {"DRAW_FOLD", "DRAG_FOLD"}
                /\ Len(folds') = Len(folds) + 1
                /\ Front(folds') = folds
                /\ \E hit \in DOMAIN geometryData.basePositions :
                      /\ hit # startPoint.vIdx
                      /\ folds'[Len(folds')].origin
                             = Midpoint(startPoint.pos, geometryData.basePositions[hit])
                /\ folds'[Len(folds')].indices # {}
                /\ \A i \in folds'[Len(folds')].indices : SideNow(folds'[Len(folds')], i) # 0
                /\ mode = "DRAG_FOLD" => startPoint.vIdx \in folds'[Len(folds')].indices]_vars

\* C29's case: a DRAW_FOLD gesture has appended a fold, the only one made so
\* far, with a non-empty member set, and the mesh shows it.
C29_Witness ==
    /\ mode = "DRAW_FOLD"
    /\ startPoint = NoPoint
    /\ clock = 1
    /\ Len(folds) = 1
    /\ folds[1].indices # {}
    /\ \E i \in folds[1].indices : Z(meshPositions[i]) > 0

-----------------------------------------------------------------------------
(* Claims about the solver at rest (checked under SpecCloth) and about the  *)
(* wind HanfuModel's frame loop passes (checked under SpecStage)            *)

\* The solver is as its constructor left it, with every vertex at or above
\* the floor and no interaction override
FreshAboveFloor ==
    /\ positions = originalPositions
    /\ prevPositions = originalPositions
    /\ interactionParticleIndex = NULL
    /\ \A v \in DOMAIN positions : Y(positions[v]) >= FLOOR_Y

\* The step just taken is update(wind, gravity) at clock reading now
UpdatedWith(wind, gravity, now) ==
    /\ updates' = updates + 1
    /\ positions' = UpdateCloth(Cloth, wind, gravity, now).positions
    /\ prevPositions' = UpdateCloth(Cloth, wind, gravity, now).prevPositions

\* C28: update() with gravity 0 and wind (0, 0, 0) on a solver that is as
\* constructed, with every vertex at or above the floor and no override,
\* leaves every position and previous position at its initial value; the
\* solver is then again as constructed, so this holds for any number of calls.
C28_FreshSolverAtRest ==
    [][\A f \in Frames :
          (/\ FreshAboveFloor
           /\ f.gravity = 0
           /\ f.wind = Vec(0, 0, 0)
           /\ UpdatedWith(f.wind, f.gravity, f.now))
          => positions' = originalPositions /\ prevPositions' = originalPositions]_vars

\* C28's case: two update() calls have run on a solver without pins whose
\* constraints are not all in one plane, and it is still as constructed.
C28_Witness ==
    /\ updates = 2
    /\ pins = {}
    /\ FreshAboveFloor
    /\ \E k \in 1..Len(constraints) :
          Z(positions[constraints[k][1]]) # Z(positions[constraints[k][2]])

\* Other vertical wind components and other clock readings to compare with
WindYs == {0, 0 - 7 * UNIT}
Clocks == {0, 150}

\* C30: update() gives the same position and previous-position buffers
\* whatever the y component of the wind vector, the state, the clock reading,
\* gravity and the interaction being the same; and the height a vertex has
\* after the integration loop depends neither on the wind vector nor on the
\* clock reading that sets the wind factor: gravity alone drives it.
C30_WindYWithoutInfluence ==
    [][\A f \in Frames :
          UpdatedWith(f.wind, f.gravity, f.now)
          => /\ \A y \in WindYs :
                   LET u == UpdateCloth(Cloth, Vec(X(f.wind), y, Z(f.wind)), f.gravity, f.now)
                   IN  positions' = u.positions /\ prevPositions' = u.prevPositions
             /\ \A y \in WindYs, now \in Clocks, i \in DOMAIN positions :
                   Y(Integrate(Cloth, 0, f.wind, f.gravity, f.now).positions[i])
                       = Y(Integrate(Cloth, 0, Vec(0, y, 0), f.gravity, now).positions[i])]_vars

\* C30's case: the first update() has run with a wind that has a vertical
\* component and moved the cloth sideways: without wind the buffers would differ.
C30_Witness ==
    /\ updates = 1
    /\ \E f \in Frames :
          /\ Y(f.wind) # 0
          /\ positions = UpdateCloth(Constructed, f.wind, f.gravity, f.now).positions
          /\ prevPositions = UpdateCloth(Constructed, f.wind, f.gravity, f.now).prevPositions
          /\ positions # UpdateCloth(Constructed, Vec(0, 0, 0), f.gravity, f.now).positions

====
